---- MODULE Spec2Model ----
(***************************************************************************)
(* TES3MP-Easy: the openmw.cfg reconciler (client.py), the system health  *)
(* check (healthcheck.py, main.py, checks.py), the dependency lookups      *)
(* (deps.py) and the server routines (server.py, tailscale.py).            *)
(*                                                                         *)
(* Text is a sequence of lexemes.  A lexeme is a run of characters that    *)
(* the code never looks inside: "data", "=", one blank, one double quote,  *)
(* "?", a line feed, a file name such as "Morrowind.esm", a path such as   *)
(* "/p".  Upper-case spellings are lexemes of their own and lower() folds  *)
(* them, as re.IGNORECASE does.  Lines end in "\n" (files of a Linux       *)
(* installation; carriage returns are not in the alphabet).                *)
(***************************************************************************)
EXTENDS Integers, Sequences, FiniteSets, TLC

VARIABLES
    cfg,      \* cfg[f]: the file at path f: [exists, text]
    last,     \* the last call of _update_single_config: its arguments, what it read, how it ended
    repeat,   \* TRUE iff the last call repeats the call before it: same file, same arguments, and that call returned
    runs,     \* calls of _update_single_config made so far
    op,       \* the operation that made the last step
    env,      \* what the checks of checks.py find on the machine
    hc,       \* run_system_check: its arguments, its position, the snapshot and the events of the pass
    dep,      \* a dependency lookup: the routine, its inputs, its position and what it built
    pref,     \* the stored data-path preference, the directories that hold Morrowind.esm, and the configure call
    srv,      \* the server installation: SERVER_DIR, the server configuration file, and the server.py call under way
    net,      \* run_server_check: its position, the rows it rendered and what it returned
    par       \* the invocations of _update_single_config that run concurrently on one file

vars == <<cfg, last, repeat, runs, op, env, hc, dep, pref, srv, net, par>>

-----------------------------------------------------------------------------
(* Bounds *)

\* lines of the global configuration file in an initial state
MaxLines == 2
\* lines of each file in an initial state of the two-file specification
MaxLocalLines == 1
\* calls of _update_single_config in one behaviour
MaxRuns == 2
\* passes of the while loop of run_system_check in one behaviour
MaxPasses == 2
\* missing libraries handed to a dependency lookup
MaxMissing == 2
\* calls of configure_data_path and configure_server_data in one behaviour
MaxCalls == 2
\* lines of the server configuration file in an initial state
MaxCfgLines == 2
\* calls of run_server_check in one behaviour
MaxChecks == 2
\* calls of start_server from the server menu in one behaviour
MaxStarts == 2
\* lines of the file two concurrent invocations start from
MaxParLines == 1

-----------------------------------------------------------------------------
(* Text *)

NL == "\n"
SP == " "
DQ == "\""

\* str.strip() and \s: the whitespace lexemes
IsSpace(t) == t \in {SP, NL}

\* re.IGNORECASE / case folding of one lexeme
lower(t) ==
    CASE t = "DATA" -> "data"
      [] t = "CONTENT" -> "content"
      [] t = "FALLBACK-ARCHIVE" -> "fallback-archive"
      [] t \in {"Morrowind.esm", "MORROWIND.ESM"} -> "morrowind.esm"
      [] t = "Tribunal.esm" -> "tribunal.esm"
      [] t = "Bloodmoon.esm" -> "bloodmoon.esm"
      [] t = "Morrowind.bsa" -> "morrowind.bsa"
      [] t \in {"Tribunal.bsa", "TRIBUNAL.BSA"} -> "tribunal.bsa"
      [] t = "Bloodmoon.bsa" -> "bloodmoon.bsa"
      [] OTHER -> t

RECURSIVE lstrip(_)
lstrip(s) ==
    IF s # <<>> /\ IsSpace(Head(s)) THEN lstrip(Tail(s)) ELSE s

RECURSIVE rstrip(_)
rstrip(s) ==
    IF s # <<>> /\ IsSpace(s[Len(s)]) THEN rstrip(SubSeq(s, 1, Len(s) - 1)) ELSE s

\* line.strip()
strip(s) == rstrip(lstrip(s))

\* str.startswith(prefix)
startswith(s, prefix) ==
    Len(s) >= Len(prefix) /\ SubSeq(s, 1, Len(prefix)) = prefix

\* index of the first line feed of a non-empty text, or its length when it has none
LineEnd(text) ==
    IF \E i \in 1..Len(text) : text[i] = NL
    THEN CHOOSE i \in 1..Len(text) : text[i] = NL /\ \A j \in 1..(i - 1) : text[j] # NL
    ELSE Len(text)

\* f.readlines(): the lines of a text, each with its line feed; the last may have none
RECURSIVE readlines(_)
readlines(text) ==
    IF text = <<>> THEN <<>>
    ELSE <<SubSeq(text, 1, LineEnd(text))>>
             \o readlines(SubSeq(text, LineEnd(text) + 1, Len(text)))

\* f.writelines(lines): the lines one after the other, nothing added
RECURSIVE writelines(_)
writelines(lines) ==
    IF lines = <<>> THEN <<>> ELSE Head(lines) \o writelines(Tail(lines))

-----------------------------------------------------------------------------
(* client.py: _update_single_config *)

CfgPaths == {"global", "local"}

\* the three base content files and the three base archives, in header order
BaseDirectives ==
    << <<"content", "Morrowind.esm">>, <<"content", "Tribunal.esm">>,
       <<"content", "Bloodmoon.esm">>, <<"fallback-archive", "Morrowind.bsa">>,
       <<"fallback-archive", "Tribunal.bsa">>, <<"fallback-archive", "Bloodmoon.bsa">> >>

\* re.match(r'^<key>\s*=\s*<name>', line_strip, re.IGNORECASE): anchored at the
\* start only, so anything may follow the name
re_match(d, line_strip) ==
    /\ line_strip # <<>>
    /\ lower(Head(line_strip)) = lower(d[1])
    /\ LET a == lstrip(Tail(line_strip))
       IN  /\ a # <<>>
           /\ Head(a) = "="
           /\ LET b == lstrip(Tail(a))
              IN  b # <<>> /\ lower(Head(b)) = lower(d[2])

\* the data test of the loop: line_strip.startswith('data=') and not
\* line_strip.startswith('data="?')
IsDataLineMutant(line_strip) ==
    FALSE

IsDataLine(line_strip) ==
    /\ startswith(line_strip, <<"data", "=">>)
    /\ ~ startswith(line_strip, <<"data", "=", DQ, "?">>)

\* the body of the filter loop: TRUE iff the line is skipped (continue)
skip_line(line) ==
    LET line_strip == strip(line)
    IN  \/ IsDataLine(line_strip)
        \/ \E i \in 1..Len(BaseDirectives) : re_match(BaseDirectives[i], line_strip)

\* new_lines: the lines the loop keeps
filter_lines(lines) == SelectSeq(lines, LAMBDA line : ~ skip_line(line))

\* header_lines: the data line, then the six fixed lines when include_content
header_linesMutant(data_path, include_content) ==
    IF include_content
    THEN [i \in 1..Len(BaseDirectives) |->
              <<BaseDirectives[i][1], "=", BaseDirectives[i][2], NL>>]
           \o << <<"data", "=", DQ>> \o data_path \o <<DQ, NL>> >>
    ELSE << <<"data", "=", DQ>> \o data_path \o <<DQ, NL>> >>

header_lines(data_path, include_content) ==
    << <<"data", "=", DQ>> \o data_path \o <<DQ, NL>> >>
      \o (IF include_content
          THEN [i \in 1..Len(BaseDirectives) |->
                    <<BaseDirectives[i][1], "=", BaseDirectives[i][2], NL>>]
          ELSE <<>>)

\* What the read of lines 47-54 yields.  rd is what the environment does:
\* "absent" (the file does not exist), "ok", "fail" (open or readlines raises).
ReadResults(file) == IF file.exists THEN {"ok", "fail"} ELSE {"absent"}

read_linesMutant(file, rd) ==
    IF rd = "ok" THEN [lines |-> readlines(file.text), raised |-> FALSE]
    ELSE [lines |-> <<>>, raised |-> rd = "fail"]

read_lines(file, rd) ==
    IF rd = "ok" THEN [lines |-> readlines(file.text), raised |-> FALSE]
    ELSE [lines |-> <<>>, raised |-> FALSE]

\* lines = header_lines + lines, as handed to writelines
new_text(lines, data_path, include_content) ==
    writelines(header_lines(data_path, include_content) \o filter_lines(lines))

\* The points at which a failing write is taken to stop: nothing written, one
\* lexeme, half of the text, all but the last lexeme.
WriteCuts(n) == {0, 1, n \div 2, n - 1} \cap 0..(n - 1)

\* open(cfg_path, 'w') and f.writelines(lines), lines 93-94.  open truncates the
\* file before anything is written; a write that fails leaves what had been written.
write_fileMutant(file, text) ==
    {[file |-> [exists |-> TRUE, text |-> text], err |-> "none"],
     [file |-> file, err |-> "open"]}
      \cup {[file |-> [exists |-> TRUE, text |-> file.text \o SubSeq(text, 1, k)],
             err |-> "write"] : k \in WriteCuts(Len(text))}

write_file(file, text) ==
    {[file |-> [exists |-> TRUE, text |-> text], err |-> "none"],
     [file |-> file, err |-> "open"]}
      \cup {[file |-> [exists |-> TRUE, text |-> SubSeq(text, 1, k)],
             err |-> "write"] : k \in WriteCuts(Len(text))}

NoCall ==
    [cfg_path |-> "none", data_path |-> <<>>, include_content |-> FALSE,
     rd |-> "absent", err |-> "none", before |-> [exists |-> FALSE, text |-> <<>>]]

\* One call of _update_single_config on the state S = [cfg, last, repeat, runs]:
\* the set of states it can end in.
update_single_config(S, cfg_path, data_path, include_content) ==
    LET file == S.cfg[cfg_path]
        same == /\ S.last.cfg_path = cfg_path
                /\ S.last.data_path = data_path
                /\ S.last.include_content = include_content
                /\ S.last.err = "none"
        end(rd, w) ==
            [cfg |-> [S.cfg EXCEPT ![cfg_path] = w.file],
             last |-> [cfg_path |-> cfg_path, data_path |-> data_path,
                       include_content |-> include_content, rd |-> rd,
                       err |-> w.err, before |-> file],
             repeat |-> same,
             runs |-> S.runs + 1]
    IN  UNION {
          LET r == read_lines(file, rd)
          IN  IF r.raised
              THEN {end(rd, [file |-> file, err |-> "read"])}
              ELSE {end(rd, w) :
                      w \in write_file(file, new_text(r.lines, data_path, include_content))}
          : rd \in ReadResults(file)}

\* update_openmw_configs passes include_content=True for the global file and
\* include_content=False for the local one
LocalIncludeContentMutant == TRUE

LocalIncludeContent == FALSE

\* update_openmw_configs(data_path): the global file, then the local file; an
\* exception of the first call propagates and the second call is not made
update_openmw_configs(S, data_path) ==
    UNION {
      IF S1.last.err = "none"
      THEN update_single_config(S1, "local", data_path, LocalIncludeContent)
      ELSE {S1}
      : S1 \in update_single_config(S, "global", data_path, TRUE)}

-----------------------------------------------------------------------------
(* Inputs *)

\* data_path values: an absolute path, and a path whose first character is "?"
DataPaths == {<<"/p">>, <<"?", "x">>}

\* lines a configuration file may hold before the program runs, without line feed
LinePool ==
    { <<"data", "=", DQ, "/old", DQ>>,                  \* data="/old"
      <<"data", "=", DQ, "?", "global", DQ>>,           \* data="?global"
      <<"data", SP, "=", SP, DQ, "/old", DQ>>,          \* data = "/old"
      <<SP, "CONTENT", SP, "=", SP, "MORROWIND.ESM">>,  \*  CONTENT = MORROWIND.ESM
      <<"content", "=", "Morrowind.esm", ".bak">>,      \* content=Morrowind.esm.bak
      <<"fallback-archive", "=", "TRIBUNAL.BSA">>,      \* fallback-archive=TRIBUNAL.BSA
      <<"content", "=", "Mod.esp">>,                    \* content=Mod.esp
      <<"#a">> }                                        \* a comment

\* the texts of at most n pool lines, the last line with or without its line feed
RECURSIVE Texts(_)
Texts(n) ==
    IF n = 0 THEN {<<>>}
    ELSE Texts(n - 1) \cup {t \o l \o <<NL>> : t \in Texts(n - 1), l \in LinePool}

InitTexts(n) ==
    Texts(n) \cup {SubSeq(t, 1, Len(t) - 1) : t \in Texts(n) \ {<<>>}}

InitFiles(n) ==
    {[exists |-> FALSE, text |-> <<>>]}
      \cup {[exists |-> TRUE, text |-> t] : t \in InitTexts(n)}

-----------------------------------------------------------------------------
(* checks.py: the predicates of the health check, as functions of the       *)
(* environment e and the configuration files.                               *)
(*   e.flatpak    shutil.which("flatpak") finds the tool                    *)
(*   e.browser    ~/.local/share/tes3mp/tes3mp-browser exists               *)
(*   e.ldd        check_dependencies' ldd run: run is "nobin" (no tes3mp    *)
(*                binary to inspect), "nonzero" (ldd exits non-zero) or     *)
(*                "ok"; notfound: the libraries its output reports as not   *)
(*                found                                                     *)
(*   e.managers   which of apt-get, dnf, pacman shutil.which finds          *)
(*   e.stored     data_location.txt: "none", "present" (the stored path     *)
(*                exists) or "dangling" (it does not)                       *)
(*   e.var_cfg    the Flatpak openmw.cfg, which the program never writes    *)
(*   e.tailscale  installed: shutil.which("tailscale") finds the tool;      *)
(*                raises: running systemctl raises; stdout: what            *)
(*                "systemctl is-active tailscaled" prints, in lexemes       *)
(*                (<<"in", "active">> is "inactive"); status_ok: "tailscale *)
(*                status" exits 0                                           *)
(*   e.port       the sockets bound to UDP port 25565                       *)
(* A library name is a sequence of lexemes, <<"libzvbi", ".so.0">>.         *)

NoEnv ==
    [flatpak |-> FALSE, browser |-> FALSE,
     ldd |-> [run |-> "nobin", notfound |-> <<>>], managers |-> {},
     stored |-> "none", var_cfg |-> [exists |-> FALSE, text |-> <<>>],
     tailscale |-> [installed |-> FALSE, raises |-> FALSE, stdout |-> <<>>,
                    status_ok |-> FALSE],
     port |-> {}]

is_flatpak_installed(e) == e.flatpak

is_tes3mp_installed(e) == e.browser

\* check_dependencies(): [] when there is no binary or ldd exits non-zero,
\* else the names before "=>" of the lines that say "not found"
check_dependencies(e) ==
    IF e.ldd.run \in {"nobin", "nonzero", "raised"} THEN <<>> ELSE e.ldd.notfound

\* the "System Deps" row of the table, healthcheck.py 55-62
dep_status(missing_deps) == IF missing_deps = <<>> THEN "Ready" ELSE "Missing"

is_tailscale_installed(e) == e.tailscale.installed

\* is_tailscale_running(): "active" in cmd.stdout; when running systemctl
\* raises, the exit status of "tailscale status"
is_tailscale_running(e) ==
    IF ~ is_tailscale_installed(e) THEN FALSE
    ELSE IF ~ e.tailscale.raises
    THEN \E i \in 1..Len(e.tailscale.stdout) : e.tailscale.stdout[i] = "active"
    ELSE e.tailscale.status_ok

\* socket.bind of socket s: OSError (address in use) when a socket holds the port
bind(bound, s) ==
    IF bound = {} THEN [ok |-> TRUE, bound |-> {s}] ELSE [ok |-> FALSE, bound |-> bound]

\* a check that leaves its socket open
closeMutant(bound, s) == bound

\* leaving the with block closes the socket
close(bound, s) == bound \ {s}

\* is_port_free(25565): what it returns and the sockets bound when it has returned
port_check(e) ==
    LET b == bind(e.port, "check")
    IN [free |-> b.ok, port |-> close(b.bound, "check")]

is_port_free(e) == port_check(e).free

\* 'data="' in content
HasDataQuote(text) ==
    \E i \in 1..(Len(text) - 2) : SubSeq(text, i, i + 2) = <<"data", "=", DQ>>

\* check_data_files: rd[i] is how the read of candidate i goes ("fail": the
\* bare except swallows it)
\* a check that reads the Flatpak location only
CfgCandidatesMutant(e, c) == <<e.var_cfg, e.var_cfg>>

CfgCandidates(e, c) == <<e.var_cfg, c["global"]>>

check_data_files(e, c, rd) ==
    [local_present |-> e.stored = "present",
     config_linked |->
        \E i \in 1..Len(CfgCandidates(e, c)) :
            /\ CfgCandidates(e, c)[i].exists
            /\ rd[i] = "ok"
            /\ HasDataQuote(CfgCandidates(e, c)[i].text)]

\* The snapshot of one pass, lines 32-98 of healthcheck.py (30-86 of main.py):
\* every predicate is computed from the environment of that moment.
snapshot(e, c, rd) ==
    [has_flatpak |-> is_flatpak_installed(e),
     has_engine |-> is_flatpak_installed(e) /\ is_tes3mp_installed(e),
     missing_deps |-> check_dependencies(e),
     data_status |-> check_data_files(e, c, rd),
     tailscale |-> IF is_tailscale_installed(e)
                   THEN (IF is_tailscale_running(e) THEN "running" ELSE "stopped")
                   ELSE "missing",
     port_free |-> is_port_free(e)]

\* the snapshots a pass can take in the environment e: one per way the reads
\* of the candidate files can go
Snapshots(e, c) ==
    {snapshot(e, c, rd) :
        rd \in {r \in [1..2 -> {"ok", "fail", "absent"}] :
                  \A i \in 1..2 : r[i] \in ReadResults(CfgCandidates(e, c)[i])}}

-----------------------------------------------------------------------------
(* healthcheck.py: the package list of the dependency fix, lines 115-158 *)

\* the calls add_if_missing(lib_substr, deb_pkg, rpm_pkg, arch_pkg), in order
DepTable ==
    << <<"libzvbi", "libzvbi0", "zvbi", "zvbi">>,
       <<"libsnappy", "libsnappy1v5", "snappy", "snappy">>,
       <<"libgsm", "libgsm1", "gsm", "gsm">>,
       <<"libxml2", "libxml2", "libxml2", "libxml2">>,
       <<"libosg", "libopenscenegraph-dev", "OpenSceneGraph", "openscenegraph">>,
       <<"libOpenThreads", "libopenscenegraph-dev", "OpenSceneGraph", "openscenegraph">>,
       <<"libboost_system", "libboost-system-dev", "boost-system", "boost-libs">>,
       <<"libboost_filesystem", "libboost-filesystem-dev", "boost-filesystem", "boost-libs">>,
       <<"libboost_program_options", "libboost-program-options-dev",
         "boost-program-options", "boost-libs">>,
       <<"libboost_iostreams", "libboost-iostreams-dev", "boost-iostreams", "boost-libs">>,
       <<"libopenal", "libopenal1", "openal-soft", "openal">>,
       <<"libavcodec", "libavcodec-dev", "ffmpeg-libs", "ffmpeg">>,
       <<"libavformat", "libavformat-dev", "ffmpeg-libs", "ffmpeg">>,
       <<"libavutil", "libavutil-dev", "ffmpeg-libs", "ffmpeg">>,
       <<"libswscale", "libswscale-dev", "ffmpeg-libs", "ffmpeg">>,
       <<"libswresample", "libswresample-dev", "ffmpeg-libs", "ffmpeg">>,
       <<"libMyGUIEngine", "libmygui-dev", "mygui", "mygui">>,
       <<"libBullet", "libbullet-dev", "bullet", "bullet">>,
       <<"libLinearMath", "libbullet-dev", "bullet", "bullet">>,
       <<"libluajit", "libluajit-5.1-2", "luajit", "luajit">> >>

\* lib_substr in m
lib_in(lib_substr, m) == \E i \in 1..Len(m) : m[i] = lib_substr

\* the first package manager found: apt-get, else dnf, else pacman, else none
pkg_manager(managers) ==
    IF "apt-get" \in managers THEN "apt"
    ELSE IF "dnf" \in managers THEN "dnf"
    ELSE IF "pacman" \in managers THEN "pacman"
    ELSE "none"

\* what one add_if_missing call appends to pkgs
add_if_missingMutant(row, missing_deps, managers) ==
    IF \E k \in 1..Len(missing_deps) : lib_in(row[1], missing_deps[k])
    THEN CASE pkg_manager(managers) = "apt" -> <<row[3]>>
           [] pkg_manager(managers) = "dnf" -> <<row[2]>>
           [] pkg_manager(managers) = "pacman" -> <<row[4]>>
           [] OTHER -> <<>>
    ELSE <<>>

add_if_missing(row, missing_deps, managers) ==
    IF \E k \in 1..Len(missing_deps) : lib_in(row[1], missing_deps[k])
    THEN CASE pkg_manager(managers) = "apt" -> <<row[2]>>
           [] pkg_manager(managers) = "dnf" -> <<row[3]>>
           [] pkg_manager(managers) = "pacman" -> <<row[4]>>
           [] OTHER -> <<>>
    ELSE <<>>

\* pkgs after the twenty calls
RECURSIVE pkgs_from(_, _, _)
pkgs_from(i, missing_deps, managers) ==
    IF i > Len(DepTable) THEN <<>>
    ELSE add_if_missing(DepTable[i], missing_deps, managers)
           \o pkgs_from(i + 1, missing_deps, managers)

hc_pkgs(missing_deps, managers) == pkgs_from(1, missing_deps, managers)

\* install_cmd, or <<>> for None
install_cmd(missing_deps, managers) ==
    CASE pkg_manager(managers) = "apt" ->
            <<"sudo", "apt-get", "install", "-y">> \o hc_pkgs(missing_deps, managers)
      [] pkg_manager(managers) = "dnf" ->
            <<"sudo", "dnf", "install", "-y">> \o hc_pkgs(missing_deps, managers)
      [] pkg_manager(managers) = "pacman" ->
            <<"sudo", "pacman", "-S", "--noconfirm">> \o hc_pkgs(missing_deps, managers)
      [] OTHER -> <<>>

-----------------------------------------------------------------------------
(* client.py: setup_client and configure_data_path, as run by the health    *)
(* check.  The user's answers and the outcome of the download are inputs.   *)

\* the data path the user enters or the stored file holds, resolved
HcDataPath == <<"/p">>

\* what a successful download and extraction leaves: tes3mp-browser at the top
\* of the install directory or not (it is moved up only when the install
\* directory holds exactly one sub-directory), and a binary for ldd to inspect
AfterExtract(e) ==
    {[e EXCEPT !.browser = b, !.ldd = l] :
        b \in BOOLEAN,
        l \in IF e.ldd.run = "nobin"
              THEN {[run |-> "ok", notfound |-> <<>>],
                    [run |-> "ok", notfound |-> << <<"libzvbi", ".so.0">> >>]}
              ELSE {e.ldd}}

\* lines 138-168: the environments the install step can end in, with TRUE when
\* setup_client goes on and FALSE when it has returned ("Installation failed")
client_install(e) ==
    IF ~ e.browser
    THEN {[env |-> e2, on |-> TRUE] : e2 \in AfterExtract(e)}
           \cup {[env |-> e, on |-> FALSE]}
    ELSE {[env |-> e, on |-> TRUE]}

\* lines 170-188 with configure_data_path (99-128): from the state S and the
\* environment e, the outcomes [S, env, raised].  An exception of
\* update_openmw_configs is not caught.
client_data(S, e) ==
    LET linked(e2) ==
            {[S |-> S2, env |-> e2, raised |-> S2.last.err # "none"] :
                S2 \in update_openmw_configs(S, HcDataPath)}
        entered ==
            \* a valid path is entered and saved, or the user gives up
            linked([e EXCEPT !.stored = "present"])
              \cup {[S |-> S, env |-> e, raised |-> FALSE]}
    IN  CASE e.stored = "present" -> linked(e)
          [] e.stored = "dangling" ->
                \* "Do you want to change it?": no returns the stored path as it is
                entered \cup {[S |-> S, env |-> e, raised |-> FALSE]}
          [] OTHER -> entered

setup_client(S, e) ==
    UNION {
      IF i.on THEN client_data(S, i.env)
      ELSE {[S |-> S, env |-> i.env, raised |-> FALSE]}
      : i \in client_install(e)}

\* the health check before it runs
NoSnapshot ==
    [has_flatpak |-> FALSE, has_engine |-> FALSE, missing_deps |-> <<>>,
     data_status |-> [local_present |-> FALSE, config_linked |-> FALSE],
     tailscale |-> "missing", port_free |-> FALSE]

NoHc ==
    [variant |-> "none", interactive |-> FALSE, func |-> FALSE, pc |-> "idle",
     snap |-> NoSnapshot, prev |-> NoSnapshot, log |-> <<>>, passes |-> 0,
     fixed |-> "none", code |-> 0]

\* no dependency lookup under way
NoDep ==
    [routine |-> "none", missing |-> <<>>, managers |-> {}, pc |-> "idle",
     pkgs |-> <<>>, cmd |-> <<>>, manual |-> <<>>, result |-> "none"]

\* no preference stored, no directory with Morrowind.esm, no configure call
NoPref ==
    [file |-> "none", markers |-> {}, pc |-> "idle", routine |-> "none",
     before |-> "none", entered |-> "none", found |-> FALSE, result |-> "none",
     calls |-> 0]

\* no server installed, no server.py call under way
NoSrv ==
    [dir |-> "absent", config |-> [exists |-> FALSE, text |-> <<>>],
     binary |-> FALSE, routine |-> "none", pc |-> "idle", interactive |-> TRUE,
     hostname |-> [given |-> FALSE, value |-> <<>>],
     password |-> [given |-> FALSE, value |-> <<>>],
     new_name |-> <<>>, new_password |-> <<>>,
     before |-> [exists |-> FALSE, text |-> <<>>],
     download |-> "none", failed |-> FALSE,
     asked |-> <<>>, out |-> <<>>, result |-> "none", calls |-> 0]

\* run_server_check not called
NoNet ==
    [pc |-> "idle",
     rows |-> [server |-> "none", esm |-> "none", port |-> "none", ip |-> "none",
               tailscale |-> "none"],
     result |-> "none", ports |-> <<>>, quiet |-> FALSE, calls |-> 0]

\* no invocation under way
NoPar == [inv |-> <<>>, start |-> [exists |-> FALSE, text |-> <<>>]]

-----------------------------------------------------------------------------
(* Specification of the reconciler: any calls of _update_single_config.     *)
(* An exception of a call propagates to the caller, which has no handler     *)
(* (main.py), so no call follows a call that raised.                         *)

State == [cfg |-> cfg, last |-> last, repeat |-> repeat, runs |-> runs]

Becomes(S) ==
    /\ cfg' = S.cfg
    /\ last' = S.last
    /\ repeat' = S.repeat
    /\ runs' = S.runs

\* the file the calls of this specification are made on
Targets == {"global"}

InitCfg ==
    /\ cfg \in [CfgPaths -> InitFiles(MaxLines)]
    /\ cfg["local"] = [exists |-> FALSE, text |-> <<>>]
    /\ last = NoCall
    /\ repeat = FALSE
    /\ runs = 0
    /\ op = "init"
    /\ env = NoEnv
    /\ hc = NoHc
    /\ dep = NoDep
    /\ pref = NoPref
    /\ srv = NoSrv
    /\ net = NoNet
    /\ par = NoPar

UpdateSingleConfig ==
    /\ runs < MaxRuns
    /\ last.err = "none"
    /\ \E cfg_path \in Targets, data_path \in DataPaths, include_content \in BOOLEAN :
         \E S \in update_single_config(State, cfg_path, data_path, include_content) :
            Becomes(S)
    /\ op' = "_update_single_config"
    /\ UNCHANGED <<env, hc, dep, pref, srv, net, par>>

NextCfg == UpdateSingleConfig

SpecCfg == InitCfg /\ [][NextCfg]_vars

-----------------------------------------------------------------------------
(* Specification of update_openmw_configs on the two files *)

InitOpenmw ==
    /\ cfg \in [CfgPaths -> InitFiles(MaxLocalLines)]
    /\ last = NoCall
    /\ repeat = FALSE
    /\ runs = 0
    /\ op = "init"
    /\ env = NoEnv
    /\ hc = NoHc
    /\ dep = NoDep
    /\ pref = NoPref
    /\ srv = NoSrv
    /\ net = NoNet
    /\ par = NoPar

UpdateOpenmwConfigs ==
    /\ runs + 2 <= MaxRuns
    /\ last.err = "none"
    /\ \E data_path \in DataPaths :
         \E S \in update_openmw_configs(State, data_path) : Becomes(S)
    /\ op' = "update_openmw_configs"
    /\ UNCHANGED <<env, hc, dep, pref, srv, net, par>>

NextOpenmw == UpdateOpenmwConfigs

SpecOpenmw == InitOpenmw /\ [][NextOpenmw]_vars

-----------------------------------------------------------------------------
(* healthcheck.py and main.py: run_system_check.                            *)
(* hc.variant is "healthcheck" (run_system_check(interactive,               *)
(* setup_client_func) of healthcheck.py; hc.func says whether a              *)
(* setup_client_func was given) or "main" (run_system_check() of main.py,   *)
(* which has no dependency step and always has setup_client).               *)
(* hc.pc is the position: "check" at the top of the while loop, then the    *)
(* blocks of the auto-fix logic, "returned" after break, "exit" after       *)
(* sys.exit(1), "crashed" when an exception leaves the function.            *)
(* hc.log lists the prompts and actions of the current pass, hc.fixed is    *)
(* the remediation the previous pass executed, hc.code the status given to  *)
(* sys.exit.                                                                *)

\* the blocks of the auto-fix logic in the order of the source text
fix_orderMutant(variant) ==
    IF variant = "healthcheck"
    THEN <<"deps", "engine", "flatpak", "data", "final">>
    ELSE <<"engine", "flatpak", "data", "final">>

fix_order(variant) ==
    IF variant = "healthcheck"
    THEN <<"deps", "flatpak", "engine", "data", "final">>
    ELSE <<"flatpak", "engine", "data", "final">>

\* the block that follows block b when b falls through
next_block(variant, b) ==
    LET o == fix_order(variant)
        i == CHOOSE k \in 1..Len(o) : o[k] = b
    IN  o[i + 1]

\* continue: where an executed remediation goes on
after_fixMutant(variant, b) == next_block(variant, b)

after_fix(variant, b) == "check"

\* the condition under which block b of the auto-fix logic is entered
offersMutant(b, h) ==
    /\ h.passes < 2
    /\ CASE b = "deps" -> h.snap.missing_deps # <<>>
         [] b = "flatpak" -> ~ h.snap.has_flatpak
         [] b = "engine" -> ~ h.snap.has_engine /\ h.func
         [] OTHER -> /\ ~ h.snap.data_status.config_linked
                     /\ h.snap.data_status.local_present
                     /\ h.func

\* a check in which a missing Tailscale stops the program like a missing Flatpak
offersTailscale(b, h) ==
    CASE b = "deps" -> h.snap.missing_deps # <<>>
      [] b = "flatpak" -> ~ h.snap.has_flatpak \/ h.snap.tailscale = "missing"
      [] b = "engine" -> ~ h.snap.has_engine /\ h.func
      [] OTHER -> /\ ~ h.snap.data_status.config_linked
                  /\ h.snap.data_status.local_present
                  /\ h.func

offersNoFlatpak(b, h) ==
    CASE b = "deps" -> h.snap.missing_deps # <<>>
      [] b = "flatpak" -> FALSE
      [] b = "engine" -> ~ h.snap.has_engine /\ h.func
      [] OTHER -> /\ ~ h.snap.data_status.config_linked
                  /\ h.snap.data_status.local_present
                  /\ h.func

offers(b, h) ==
    CASE b = "deps" -> h.snap.missing_deps # <<>>
      [] b = "flatpak" -> ~ h.snap.has_flatpak
      [] b = "engine" -> ~ h.snap.has_engine /\ h.func
      [] OTHER -> /\ ~ h.snap.data_status.config_linked
                  /\ h.snap.data_status.local_present
                  /\ h.func

\* where a declined prompt of block b goes on: the code below the prompt
declinedMutant(variant, b) == "check"

declinedSkips(variant, b) ==
    next_block(variant, IF b = "install" THEN "deps" ELSE b)

declined(variant, b) ==
    IF b = "install" THEN "continue_anyway" ELSE next_block(variant, b)

Goes(pc, events) ==
    hc' = [hc EXCEPT !.pc = pc, !.log = hc.log \o events]

\* sys.exit(status)
sys_exit(status, events) ==
    hc' = [hc EXCEPT !.pc = "exit", !.code = status, !.log = hc.log \o events]

\* top of the loop: every predicate is evaluated and the table rendered
HcEvaluate ==
    /\ hc.pc = "check"
    /\ hc.passes < MaxPasses
    /\ \E sn \in Snapshots(env, cfg) :
          hc' = [hc EXCEPT !.pc = fix_order(hc.variant)[1], !.snap = sn,
                           !.prev = hc.snap, !.log = <<>>, !.passes = hc.passes + 1,
                           !.fixed = IF hc.log = <<>> THEN "none"
                                     ELSE hc.log[Len(hc.log)]]
    /\ op' = "run_system_check"
    /\ UNCHANGED <<cfg, last, repeat, runs, env, dep, pref, srv, net, par>>

\* Priority 0 (healthcheck.py 106-162): the install prompt
HcDeps ==
    /\ hc.pc = "deps"
    /\ IF ~ offers("deps", hc)
       THEN Goes(next_block(hc.variant, "deps"), <<>>)
       ELSE IF install_cmd(hc.snap.missing_deps, env.managers) # <<>>
       THEN \E yes \in BOOLEAN :
               Goes(IF yes THEN "install" ELSE declined(hc.variant, "install"),
                    <<"report_deps", "ask_install">>)
       ELSE Goes("continue_anyway", <<"report_deps">>)
    /\ op' = "run_system_check"
    /\ UNCHANGED <<cfg, last, repeat, runs, env, dep, pref, srv, net, par>>

\* subprocess.check_call(install_cmd), lines 163-168: it succeeds (and the
\* libraries are then found or still not found), it raises CalledProcessError,
\* or it raises something else (sudo cannot be run), which is not caught
HcInstall ==
    /\ hc.pc = "install"
    /\ \E how \in {"ok", "failed", "raised"} :
          CASE how = "ok" ->
                 /\ Goes(after_fix(hc.variant, "deps"), <<"install_ok">>)
                 /\ \E nf \in {env.ldd.notfound, <<>>} :
                       env' = [env EXCEPT !.ldd.notfound = nf]
            [] how = "failed" ->
                 /\ Goes("continue_anyway", <<"install_failed">>)
                 /\ env' = env
            [] OTHER ->
                 /\ Goes("crashed", <<>>)
                 /\ env' = env
    /\ op' = "run_system_check"
    /\ UNCHANGED <<cfg, last, repeat, runs, dep, pref, srv, net, par>>

\* lines 170-176: the manual instructions and "Continue anyway?"
HcContinueAnyway ==
    /\ hc.pc = "continue_anyway"
    /\ \E yes \in BOOLEAN :
          IF yes THEN Goes(next_block(hc.variant, "deps"), <<"ask_continue">>)
          ELSE sys_exit(1, <<"ask_continue">>)
    /\ op' = "run_system_check"
    /\ UNCHANGED <<cfg, last, repeat, runs, env, dep, pref, srv, net, par>>

\* Priority 1: Flatpak is required
HcFlatpak ==
    /\ hc.pc = "flatpak"
    /\ IF offers("flatpak", hc)
       THEN sys_exit(1, <<"flatpak_fatal">>)
       ELSE Goes(next_block(hc.variant, "flatpak"), <<>>)
    /\ op' = "run_system_check"
    /\ UNCHANGED <<cfg, last, repeat, runs, env, dep, pref, srv, net, par>>

\* Priority 2: the engine prompt
HcEngine ==
    /\ hc.pc = "engine"
    /\ IF offers("engine", hc)
       THEN \E yes \in BOOLEAN :
               Goes(IF yes THEN "setup_engine" ELSE declined(hc.variant, "engine"),
                    <<"ask_engine">>)
       ELSE Goes(next_block(hc.variant, "engine"), <<>>)
    /\ op' = "run_system_check"
    /\ UNCHANGED <<cfg, last, repeat, runs, env, dep, pref, srv, net, par>>

\* Priority 3: the data linkage prompt
HcData ==
    /\ hc.pc = "data"
    /\ IF offers("data", hc)
       THEN \E yes \in BOOLEAN :
               Goes(IF yes THEN "setup_data" ELSE declined(hc.variant, "data"),
                    <<"ask_link">>)
       ELSE Goes(next_block(hc.variant, "data"), <<>>)
    /\ op' = "run_system_check"
    /\ UNCHANGED <<cfg, last, repeat, runs, env, dep, pref, srv, net, par>>

\* setup_client_func() of Priority 2 or 3, then continue
HcSetupClient ==
    /\ hc.pc \in {"setup_engine", "setup_data"}
    /\ \E o \in setup_client(State, env) :
          /\ Becomes(o.S)
          /\ env' = o.env
          /\ IF o.raised
             THEN Goes("crashed", <<>>)
             ELSE Goes(after_fix(hc.variant, IF hc.pc = "setup_engine" THEN "engine" ELSE "data"),
                       <<hc.pc>>)
    /\ op' = "run_system_check"
    /\ UNCHANGED <<dep, pref, srv, net, par>>

\* lines 198-204 of healthcheck.py: "Press Enter to continue" when interactive
\* or issues remain, then break; main.py breaks at once
HcFinal ==
    /\ hc.pc = "final"
    /\ IF /\ hc.variant = "healthcheck"
          /\ \/ hc.interactive
             \/ ~ (hc.snap.has_engine /\ hc.snap.data_status.config_linked)
       THEN Goes("returned", <<"press_enter">>)
       ELSE Goes("returned", <<>>)
    /\ op' = "run_system_check"
    /\ UNCHANGED <<cfg, last, repeat, runs, env, dep, pref, srv, net, par>>

\* the arguments of run_system_check: <<variant, interactive, setup_client_func given>>
HcArgs ==
    {<<"main", FALSE, TRUE>>} \cup {<<"healthcheck", i, f>> : i, f \in BOOLEAN}

HcFiles ==
    {[exists |-> FALSE, text |-> <<>>],
     [exists |-> TRUE, text |-> <<"#a", NL>>],
     [exists |-> TRUE, text |-> <<"data", "=", DQ, "/p", DQ, NL>>]}

\* Tailscale installed or not, systemctl's answer, and whether port 25565 is free
HcNetwork ==
    {[tailscale |-> [installed |-> FALSE, raises |-> FALSE, stdout |-> <<>>,
                     status_ok |-> FALSE], port |-> {}],
     [tailscale |-> [installed |-> TRUE, raises |-> FALSE, stdout |-> <<"active">>,
                     status_ok |-> TRUE], port |-> {"other"}],
     [tailscale |-> [installed |-> TRUE, raises |-> FALSE, stdout |-> <<"failed">>,
                     status_ok |-> FALSE], port |-> {}]}

HcEnvs ==
    {[flatpak |-> f, browser |-> b, ldd |-> l, managers |-> m, stored |-> s,
      var_cfg |-> [exists |-> FALSE, text |-> <<>>], tailscale |-> n.tailscale,
      port |-> n.port] :
        f \in BOOLEAN, b \in BOOLEAN,
        l \in {[run |-> "nobin", notfound |-> <<>>],
               [run |-> "nonzero", notfound |-> <<>>],
               [run |-> "ok", notfound |-> <<>>],
               [run |-> "ok", notfound |-> << <<"libzvbi", ".so.0">> >>],
               [run |-> "ok", notfound |-> << <<"libfoo", ".so.9">> >>]},
        m \in {{}, {"apt-get"}, {"dnf", "pacman"}},
        s \in {"none", "present", "dangling"},
        n \in HcNetwork}

InitHC ==
    /\ cfg \in [CfgPaths -> HcFiles]
    /\ cfg["local"] = [exists |-> FALSE, text |-> <<>>]
    /\ last = NoCall
    /\ repeat = FALSE
    /\ runs = 0
    /\ op = "init"
    /\ env \in HcEnvs
    /\ \E a \in HcArgs :
          hc = [variant |-> a[1], interactive |-> a[2], func |-> a[3], pc |-> "check",
                snap |-> NoSnapshot, prev |-> NoSnapshot, log |-> <<>>, passes |-> 0,
                fixed |-> "none", code |-> 0]
    /\ dep = NoDep
    /\ pref = NoPref
    /\ srv = NoSrv
    /\ net = NoNet
    /\ par = NoPar

NextHC ==
    \/ HcEvaluate
    \/ HcDeps
    \/ HcInstall
    \/ HcContinueAnyway
    \/ HcFlatpak
    \/ HcEngine
    \/ HcData
    \/ HcSetupClient
    \/ HcFinal

SpecHC == InitHC /\ [][NextHC]_vars

\* The statements of run_system_check itself are executed in turn and every
\* prompt is answered.  Nothing is assumed of the install command or of
\* setup_client, which run other programs and ask questions of their own.
HcOwnStep ==
    \/ HcEvaluate
    \/ HcDeps
    \/ HcContinueAnyway
    \/ HcFlatpak
    \/ HcEngine
    \/ HcData
    \/ HcFinal

\* The runs whose progress is followed start without Tailscale and with the
\* port free: neither is read by the auto-fix logic.
InitHCFair ==
    /\ InitHC
    /\ ~ env.tailscale.installed

SpecHCFair == InitHCFair /\ [][NextHC]_vars /\ WF_vars(HcOwnStep)

-----------------------------------------------------------------------------
(* deps.py: check_server_dependencies from line 68 on, and the package list *)
(* of healthcheck.py as a function of the missing libraries and of the      *)
(* package managers found.                                                  *)

\* LIB_TO_PKG, lines 76-82: <<lib_key, apt, yum, pacman, apk>> in dict order
LIB_TO_PKG ==
    << <<"libluajit", "libluajit-5.1-2", "luajit", "luajit", "luajit">>,
       <<"libboost_system", "libboost-system1.74.0", "boost-system", "boost-libs",
         "boost-system">>,
       <<"libboost_filesystem", "libboost-filesystem1.74.0", "boost-filesystem",
         "boost-libs", "boost-filesystem">>,
       <<"libboost_program_options", "libboost-program-options1.74.0",
         "boost-program-options", "boost-libs", "boost">>,
       <<"libboost_iostreams", "libboost-iostreams1.74.0", "boost-iostreams",
         "boost-libs", "boost-iostreams">> >>

\* lines 85-101: the package manager family, "none" for None
server_pkg_manager(managers) ==
    IF "apt-get" \in managers THEN "apt"
    ELSE IF "dnf" \in managers THEN "yum"
    ELSE IF "yum" \in managers THEN "yum"
    ELSE IF "pacman" \in managers THEN "pacman"
    ELSE IF "apk" \in managers THEN "apk"
    ELSE "none"

server_pkg_cmd(managers) ==
    IF "apt-get" \in managers THEN <<"sudo", "apt-get", "install", "-y">>
    ELSE IF "dnf" \in managers THEN <<"sudo", "dnf", "install", "-y">>
    ELSE IF "yum" \in managers THEN <<"sudo", "yum", "install", "-y">>
    ELSE IF "pacman" \in managers THEN <<"sudo", "pacman", "-S", "--noconfirm">>
    ELSE IF "apk" \in managers THEN <<"sudo", "apk", "add">>
    ELSE <<>>

\* pkg_map[pkg_manager]
pkg_of(row, family) ==
    CASE family = "apt" -> row[2]
      [] family = "yum" -> row[3]
      [] family = "pacman" -> row[4]
      [] OTHER -> row[5]

\* lines 112-116: the rows up to the break, for one library
first_key(lib) ==
    LET hits == {k \in 1..Len(LIB_TO_PKG) : lib_in(LIB_TO_PKG[k][1], lib)}
    IN  IF hits = {} THEN {} ELSE {CHOOSE k \in hits : \A j \in hits : k <= j}

\* lines 110-116: packages_to_install
packages_to_install(missing_libs, managers) ==
    {pkg_of(LIB_TO_PKG[k], server_pkg_manager(managers)) :
        k \in UNION {first_key(missing_libs[i]) : i \in DOMAIN missing_libs}}

\* list(packages_to_install): the set in some order
Orders(S) ==
    {q \in [1..Cardinality(S) -> S] : \A i, j \in 1..Cardinality(S) : q[i] = q[j] => i = j}

Does(pc, result) == dep' = [dep EXCEPT !.pc = pc, !.result = result]

\* lines 68-125 up to the prompt
DepServerLookup ==
    /\ dep.routine = "server"
    /\ dep.pc = "start"
    /\ IF dep.missing = <<>>
       THEN Does("returned", "True")
       ELSE IF server_pkg_manager(dep.managers) = "none"
       THEN dep' = [dep EXCEPT !.pc = "returned", !.result = "False",
                               !.manual = dep.missing]
       ELSE \E q \in Orders(packages_to_install(dep.missing, dep.managers)) :
               dep' = [dep EXCEPT !.pkgs = q,
                                  !.pc = IF q = <<>> THEN "returned" ELSE "offer",
                                  !.result = IF q = <<>> THEN "False" ELSE "none"]
    /\ op' = "check_server_dependencies"
    /\ UNCHANGED <<cfg, last, repeat, runs, env, hc, pref, srv, net, par>>

\* line 124: "Install missing dependencies now?"
DepServerAnswer ==
    /\ dep.routine = "server"
    /\ dep.pc = "offer"
    /\ \E yes \in BOOLEAN :
          IF yes
          THEN dep' = [dep EXCEPT !.pc = "run",
                                  !.cmd = server_pkg_cmd(dep.managers) \o dep.pkgs]
          ELSE Does("returned", "False")
    /\ op' = "check_server_dependencies"
    /\ UNCHANGED <<cfg, last, repeat, runs, env, hc, pref, srv, net, par>>

\* lines 127-143: the install command succeeds, fails with
\* CalledProcessError, or cannot be started (not caught)
DepServerInstall ==
    /\ dep.routine = "server"
    /\ dep.pc = "run"
    /\ \E how \in {"ok", "failed", "raised"} :
          CASE how = "ok" -> Does("returned", "True")
            [] how = "failed" -> Does("returned", "False")
            [] OTHER -> Does("crashed", "none")
    /\ op' = "check_server_dependencies"
    /\ UNCHANGED <<cfg, last, repeat, runs, env, hc, pref, srv, net, par>>

\* healthcheck.py 115-160: pkgs and install_cmd; the install prompt is shown
\* when install_cmd is not empty
DepHealthcheckLookup ==
    /\ dep.routine = "healthcheck"
    /\ dep.pc = "start"
    /\ dep' = [dep EXCEPT
                 !.pkgs = hc_pkgs(dep.missing, dep.managers),
                 !.cmd = install_cmd(dep.missing, dep.managers),
                 !.pc = IF install_cmd(dep.missing, dep.managers) # <<>>
                        THEN "offer" ELSE "manual",
                 !.manual = IF install_cmd(dep.missing, dep.managers) # <<>>
                            THEN <<>> ELSE dep.missing]
    /\ op' = "run_system_check"
    /\ UNCHANGED <<cfg, last, repeat, runs, env, hc, pref, srv, net, par>>

\* names of missing libraries as ldd prints them, in lexemes
DepLibs ==
    {<<"libzvbi", ".so.0", " => not found">>, <<"libosg", ".so.3">>,
     <<"libOpenThreads", ".so.2">>, <<"libboost_system", ".so.1.74.0">>,
     <<"libboost_filesystem", ".so.1.74.0">>, <<"libluajit", "-5.1.so.2">>,
     <<"libfoo", ".so.9">>}

MissingLists == UNION {[1..n -> DepLibs] : n \in 0..MaxMissing}

ManagerSets ==
    {{}, {"apt-get"}, {"dnf"}, {"yum"}, {"pacman"}, {"apk"}, {"apt-get", "dnf"}}

InitDeps ==
    /\ cfg = [f \in CfgPaths |-> [exists |-> FALSE, text |-> <<>>]]
    /\ last = NoCall
    /\ repeat = FALSE
    /\ runs = 0
    /\ op = "init"
    /\ env = NoEnv
    /\ hc = NoHc
    /\ pref = NoPref
    /\ \E r \in {"server", "healthcheck"}, m \in MissingLists, g \in ManagerSets :
          dep = [NoDep EXCEPT !.routine = r, !.missing = m, !.managers = g,
                              !.pc = "start"]
    /\ srv = NoSrv
    /\ net = NoNet
    /\ par = NoPar

NextDeps ==
    \/ DepServerLookup
    \/ DepServerAnswer
    \/ DepServerInstall
    \/ DepHealthcheckLookup

SpecDeps == InitDeps /\ [][NextDeps]_vars

-----------------------------------------------------------------------------
(* utils.py save_data_path / load_stored_data_path, client.py                *)
(* configure_data_path and server.py configure_server_data.                  *)
(* pref.file is the content of data_location.txt ("none": no file),          *)
(* pref.markers the directories that hold Morrowind.esm; pref.pc is the      *)
(* position of the configure call, pref.before the preference when it        *)
(* began, pref.entered the path last entered (resolved), pref.result what    *)
(* the call returned ("None" for None).                                      *)

PrefPaths == {"/a", "/b"}

\* load_stored_data_path(): the stored path, or "none" for None
load_stored_data_path(p) == p.file

\* save_data_path(path)
save_data_path(p, path) == [p EXCEPT !.file = path]

\* (data_path / "Morrowind.esm").exists()
has_markerMutant(p, path) == TRUE

has_marker(p, path) == path \in p.markers

\* configure_data_path() or configure_server_data() is called: lines 102-106
\* (server.py 263-267)
PrefConfigure ==
    /\ pref.pc = "idle"
    /\ pref.calls < MaxCalls
    /\ \E r \in {"client", "server"} :
          pref' = [pref EXCEPT
                     !.routine = r,
                     !.before = pref.file,
                     !.entered = "none",
                     !.found = FALSE,
                     !.result = "none",
                     !.calls = pref.calls + 1,
                     !.pc = IF load_stored_data_path(pref) # "none"
                            THEN "ask_change" ELSE "ask_path"]
    /\ op' = "configure"
    /\ UNCHANGED <<cfg, last, repeat, runs, env, hc, dep, srv, net, par>>

\* "Do you want to change it?" / "Change path?": no returns current_path
PrefAnswerChange ==
    /\ pref.pc = "ask_change"
    /\ \E yes \in BOOLEAN :
          pref' = IF yes THEN [pref EXCEPT !.pc = "ask_path"]
                  ELSE [pref EXCEPT !.pc = "idle",
                                    !.result = load_stored_data_path(pref)]
    /\ op' = "configure"
    /\ UNCHANGED <<cfg, last, repeat, runs, env, hc, dep, srv, net, par>>

\* a path is entered: with Morrowind.esm in it, it is saved (and, in
\* client.py, the openmw.cfg files are updated, which can raise) and
\* returned; else "Try again?" follows
PrefEnterPath ==
    /\ pref.pc = "ask_path"
    /\ \E path \in PrefPaths :
          IF has_marker(pref, path)
          THEN IF pref.routine = "client"
               THEN \E S \in update_openmw_configs(State, <<path>>) :
                       /\ Becomes(S)
                       /\ pref' = [save_data_path(pref, path) EXCEPT
                                     !.entered = path, !.found = TRUE,
                                     !.result = IF S.last.err = "none" THEN path
                                                ELSE "none",
                                     !.pc = IF S.last.err = "none" THEN "idle"
                                            ELSE "crashed"]
               ELSE /\ pref' = [save_data_path(pref, path) EXCEPT
                                  !.entered = path, !.found = TRUE,
                                  !.result = path, !.pc = "idle"]
                    /\ UNCHANGED <<cfg, last, repeat, runs>>
          ELSE /\ pref' = [pref EXCEPT !.entered = path, !.found = FALSE,
                                       !.pc = "try_again"]
               /\ UNCHANGED <<cfg, last, repeat, runs>>
    /\ op' = "configure"
    /\ UNCHANGED <<env, hc, dep, srv, net, par>>

\* "Try again?": no returns None
PrefTryAgain ==
    /\ pref.pc = "try_again"
    /\ \E yes \in BOOLEAN :
          pref' = IF yes THEN [pref EXCEPT !.pc = "ask_path"]
                  ELSE [pref EXCEPT !.pc = "idle", !.result = "None"]
    /\ op' = "configure"
    /\ UNCHANGED <<cfg, last, repeat, runs, env, hc, dep, srv, net, par>>

\* the user's files: Morrowind.esm appears in a directory or goes from it
PrefFilesChange ==
    /\ pref.pc # "crashed"
    /\ \E path \in PrefPaths :
          pref' = [pref EXCEPT
                     !.markers = IF path \in pref.markers
                                 THEN pref.markers \ {path}
                                 ELSE pref.markers \cup {path}]
    /\ op' = "files"
    /\ UNCHANGED <<cfg, last, repeat, runs, env, hc, dep, srv, net, par>>

InitPref ==
    /\ cfg = [f \in CfgPaths |-> [exists |-> FALSE, text |-> <<>>]]
    /\ last = NoCall
    /\ repeat = FALSE
    /\ runs = 0
    /\ op = "init"
    /\ env = NoEnv
    /\ hc = NoHc
    /\ dep = NoDep
    /\ \E f \in PrefPaths \cup {"none"}, ms \in SUBSET PrefPaths :
          pref = [NoPref EXCEPT !.file = f, !.markers = ms]
    /\ srv = NoSrv
    /\ net = NoNet
    /\ par = NoPar

NextPref ==
    \/ PrefConfigure
    \/ PrefAnswerChange
    \/ PrefEnterPath
    \/ PrefTryAgain
    \/ PrefFilesChange

SpecPref == InitPref /\ [][NextPref]_vars

-----------------------------------------------------------------------------
(* server.py: configure_server.  The configuration file is a text of        *)
(* lexemes; "\\" is one backslash, "n" the letter n.                        *)

BS == "\\"

\* the end of the line that holds position i of a text: the index of the last
\* lexeme before the next line feed (or of the last lexeme of the text)
RECURSIVE eol(_, _)
eol(text, i) ==
    IF i >= Len(text) THEN Len(text)
    ELSE IF text[i + 1] = NL THEN i
    ELSE eol(text, i + 1)

\* the index after the run of \s lexemes that starts at i
RECURSIVE skip_space(_, _)
skip_space(text, i) ==
    IF i <= Len(text) /\ IsSpace(text[i]) THEN skip_space(text, i + 1) ELSE i

\* ^key\s*=.*$ tried at the head of a text that begins a line: the index of
\* the last lexeme matched, 0 when the pattern does not match here
match_end(key, text) ==
    IF text = <<>> \/ Head(text) # key THEN 0
    ELSE LET j == skip_space(text, 2)
         IN  IF j <= Len(text) /\ text[j] = "=" THEN eol(text, j) ELSE 0

\* the template of re.sub: "\\\\" is one backslash, "\\n" a line feed; a
\* backslash before any other letter or a digit, or at the end, raises re.error
RECURSIVE expand(_)
expand(repl) ==
    IF repl = <<>> THEN [ok |-> TRUE, text |-> <<>>]
    ELSE IF Head(repl) # BS
    THEN LET r == expand(Tail(repl))
         IN  [ok |-> r.ok, text |-> <<Head(repl)>> \o r.text]
    ELSE IF Len(repl) >= 2 /\ repl[2] \in {BS, "n"}
    THEN LET r == expand(SubSeq(repl, 3, Len(repl)))
         IN  [ok |-> r.ok, text |-> <<IF repl[2] = "n" THEN NL ELSE BS>> \o r.text]
    ELSE [ok |-> FALSE, text |-> <<>>]

\* every match of ^key\s*=.*$ replaced by the expanded template; bol: the
\* text begins a line
RECURSIVE replace_all(_, _, _, _)
replace_all(key, by, text, bol) ==
    IF text = <<>> THEN <<>>
    ELSE LET e == IF bol THEN match_end(key, text) ELSE 0
         IN  IF e > 0
             THEN by \o replace_all(key, by, SubSeq(text, e + 1, Len(text)), FALSE)
             ELSE <<Head(text)>> \o replace_all(key, by, Tail(text), Head(text) = NL)

\* re.sub(r'^key\s*=.*$', repl, text, flags=re.MULTILINE): the template is
\* parsed before the text is searched, so a bad template raises with or
\* without a match
re_sub(key, repl, text) ==
    LET x == expand(repl)
    IN  IF x.ok THEN [ok |-> TRUE, text |-> replace_all(key, x.text, text, TRUE)]
        ELSE [ok |-> FALSE, text |-> text]

\* ^hostname\s*=\s*(.+)$ tried at the head of a text that begins a line, with
\* k lexemes given to the second \s*: group(1), or <<>> when there is no match
name_group(text, k) ==
    LET j == skip_space(text, 2)
        g == j + 1 + k
    IN  IF /\ text # <<>> /\ Head(text) = "hostname"
           /\ j <= Len(text) /\ text[j] = "="
           /\ g <= Len(text)
           /\ \A i \in (j + 1)..(g - 1) : IsSpace(text[i])
           /\ text[g] # NL
        THEN SubSeq(text, g, eol(text, g))
        ELSE <<>>

\* the longest run the second \s* can take (the regular expression is greedy)
first_group(text) ==
    LET ks == {k \in 0..Len(text) : name_group(text, k) # <<>>}
    IN  IF ks = {} THEN <<>>
        ELSE name_group(text, CHOOSE k \in ks : \A m \in ks : m <= k)

\* re.search(r'^hostname\s*=\s*(.+)$', config, re.MULTILINE): the first line
\* start at which the pattern matches; current_name is group(1).strip(), and
\* "TES3MP Server" when nothing matches
RECURSIVE current_name(_, _)
current_name(text, bol) ==
    IF text = <<>> THEN <<"TES3MP Server">>
    ELSE IF bol /\ first_group(text) # <<>> THEN strip(first_group(text))
    ELSE current_name(Tail(text), Head(text) = NL)

\* what the user types at a prompt; <<>> is the Enter key alone
Typed == {<<>>, <<"new">>, <<"a", BS, BS, "b">>}

\* hostname and password arguments: [given, value]; not given is None
ServerArgs ==
    {[given |-> FALSE, value |-> <<>>]}
      \cup {[given |-> TRUE, value |-> v] :
              v \in {<<>>, <<"new">>, <<"a", BS, BS, "b">>, <<"a", BS, "n", "b">>,
                     <<"My", BS, "Server">>}}

\* configure_server(server_root, hostname, password) on the state S of the
\* server, the user typing name and word at the prompts that are shown: the
\* states the call can end in
configure_server(S, hostname, password, name, word) ==
    LET call == [S EXCEPT !.routine = "configure_server", !.hostname = hostname,
                          !.password = password, !.before = S.config,
                          !.asked = <<>>, !.calls = S.calls + 1]
    IN  IF ~ S.config.exists
        THEN {[call EXCEPT !.pc = "done", !.result = "no_config"]}
        ELSE UNION {
          IF rd = "fail"
          THEN {[call EXCEPT !.pc = "crashed", !.result = "raised"]}
          ELSE
            LET config == S.config.text
                new_name == IF hostname.given THEN hostname.value
                            ELSE IF name = <<>> THEN current_name(config, TRUE)
                            ELSE name
                new_password == IF password.given THEN password.value ELSE word
                asked == (IF hostname.given THEN <<>> ELSE <<"Server name">>)
                           \o (IF password.given THEN <<>> ELSE <<"Server password">>)
                a == re_sub("hostname", <<"hostname", SP, "=", SP>> \o new_name,
                            config)
                b == re_sub("password", <<"password", SP, "=", SP>> \o new_password,
                            a.text)
                said == [call EXCEPT !.asked = asked, !.new_name = new_name,
                                     !.new_password = new_password]
            IN  IF ~ (a.ok /\ b.ok)
                THEN {[said EXCEPT !.pc = "crashed", !.result = "raised"]}
                ELSE {IF w.err = "none"
                      THEN [said EXCEPT !.config = w.file, !.pc = "done",
                                        !.result = "configured"]
                      ELSE [said EXCEPT !.config = w.file, !.pc = "crashed",
                                        !.result = "raised"]
                      : w \in write_file(S.config, b.text)}
          : rd \in ReadResults(S.config)}

\* lines a server configuration file may hold, without line feed
ServerLinePool ==
    { <<"[General]">>,
      <<"hostname", SP, "=", SP, "old">>,
      <<"hostname", "=">>,
      <<"password", SP, "=", SP, "old">>,
      <<"password", SP, "=">>,
      <<"port", SP, "=", SP, "25565">>,
      <<SP, "hostname", SP, "=", SP, "old">>,
      <<"#", "password", SP, "=", SP, "old">> }

RECURSIVE ServerTexts(_)
ServerTexts(n) ==
    IF n = 0 THEN {<<>>}
    ELSE ServerTexts(n - 1)
           \cup {t \o l \o <<NL>> : t \in ServerTexts(n - 1), l \in ServerLinePool}

\* tes3mp-server-default.cfg before the call: absent, or at most MaxCfgLines
\* pool lines, the last with or without its line feed
ServerFiles ==
    {[exists |-> FALSE, text |-> <<>>]}
      \cup {[exists |-> TRUE, text |-> t] : t \in ServerTexts(MaxCfgLines)}
      \cup {[exists |-> TRUE, text |-> SubSeq(t, 1, Len(t) - 1)] :
              t \in ServerTexts(MaxCfgLines) \ {<<>>}}

InitConfigure ==
    /\ cfg = [f \in CfgPaths |-> [exists |-> FALSE, text |-> <<>>]]
    /\ last = NoCall
    /\ repeat = FALSE
    /\ runs = 0
    /\ op = "init"
    /\ env = NoEnv
    /\ hc = NoHc
    /\ dep = NoDep
    /\ pref = NoPref
    /\ \E f \in ServerFiles : srv = [NoSrv EXCEPT !.dir = "installed", !.config = f]
    /\ net = NoNet
    /\ par = NoPar

ConfigureServer ==
    /\ srv.pc = "idle"
    /\ \E hostname \in ServerArgs, password \in ServerArgs, name \in Typed, word \in Typed :
          srv' \in configure_server(srv, hostname, password, name, word)
    /\ op' = "configure_server"
    /\ UNCHANGED <<cfg, last, repeat, runs, env, hc, dep, pref, net, par>>

NextConfigure == ConfigureServer

SpecConfigure == InitConfigure /\ [][NextConfigure]_vars

-----------------------------------------------------------------------------
(* server.py: install_server.  srv.dir is SERVER_DIR: "absent", "empty" (the *)
(* directory exists and holds no TES3MP-server* folder) or "installed".      *)
(* check_server_dependencies is the routine of the dependency lookup above:  *)
(* install_server starts it and goes on when it has returned.                *)

\* get_server_root(): the folder, or None
get_server_root(dir) == IF dir = "installed" THEN "root" ELSE "None"

\* check_server_dependencies(server_root, get_server_root) is called: ldd or
\* ldconfig report the libraries of missing
StartsCheck(missing) ==
    dep' = [NoDep EXCEPT !.routine = "server", !.missing = missing,
                         !.managers = env.managers, !.pc = "start"]

\* the call under way: lines 44-49 when SERVER_DIR exists
already_installed(S) ==
    [S EXCEPT !.out = <<"already installed">>, !.pc = "deps",
              !.result = get_server_root(S.dir)]

\* lines 55-81: mkdir, the download, the extraction.  how: "failed" (the
\* download raises, return None), "corrupt" (tarfile raises), "ok"
download(S, how) ==
    CASE how = "failed" ->
           [S EXCEPT !.dir = "empty", !.download = "failed", !.failed = TRUE,
                     !.out = <<"Download failed">>, !.pc = "done", !.result = "None"]
      [] how = "corrupt" ->
           [S EXCEPT !.dir = "empty", !.download = "ok", !.pc = "crashed",
                     !.result = "raised"]
      [] OTHER ->
           [S EXCEPT !.dir = "installed", !.download = "ok",
                     !.out = <<"Server installed!">>, !.pc = "deps",
                     !.result = get_server_root("installed")]

Downloads == {"failed", "corrupt", "ok"}

\* srv' is T; the dependency check starts when T is at it
InstallGoes(T) ==
    /\ srv' = T
    /\ IF T.pc = "deps" THEN \E missing \in MissingLists : StartsCheck(missing)
       ELSE dep' = NoDep

\* install_server(interactive) is called, up to its first prompt or its return
InstallServer ==
    /\ srv.pc \in {"idle", "done"}
    /\ srv.calls < MaxCalls
    /\ \E interactive \in BOOLEAN :
         LET call == [srv EXCEPT !.routine = "install_server",
                                 !.interactive = interactive, !.asked = <<>>,
                                 !.out = <<>>, !.download = "none",
                                 !.result = "none", !.calls = srv.calls + 1]
         IN  IF srv.dir # "absent"
             THEN InstallGoes(already_installed(call))
             ELSE IF interactive
             THEN InstallGoes([call EXCEPT !.pc = "ask_install",
                                           !.asked = <<"Install server to">>])
             ELSE \E how \in Downloads : InstallGoes(download(call, how))
    /\ op' = "install_server"
    /\ UNCHANGED <<cfg, last, repeat, runs, env, hc, pref, net, par>>

\* line 52: "Install server to ...?"
InstallAnswer ==
    /\ srv.routine = "install_server"
    /\ srv.pc = "ask_install"
    /\ \E yes \in BOOLEAN :
          IF yes
          THEN \E how \in Downloads : InstallGoes(download(srv, how))
          ELSE InstallGoes([srv EXCEPT !.pc = "done", !.result = "None"])
    /\ op' = "install_server"
    /\ UNCHANGED <<cfg, last, repeat, runs, env, hc, pref, net, par>>

\* check_server_dependencies has returned (its result is not used), or its
\* install command could not be started and the exception propagates
InstallReturn ==
    /\ srv.routine = "install_server"
    /\ srv.pc = "deps"
    /\ dep.pc \in {"returned", "crashed"}
    /\ srv' = IF dep.pc = "returned" THEN [srv EXCEPT !.pc = "done"]
              ELSE [srv EXCEPT !.pc = "crashed", !.result = "raised"]
    /\ op' = "install_server"
    /\ UNCHANGED <<cfg, last, repeat, runs, env, hc, dep, pref, net, par>>

InitInstall ==
    /\ cfg = [f \in CfgPaths |-> [exists |-> FALSE, text |-> <<>>]]
    /\ last = NoCall
    /\ repeat = FALSE
    /\ runs = 0
    /\ op = "init"
    /\ \E g \in ManagerSets : env = [NoEnv EXCEPT !.managers = g]
    /\ hc = NoHc
    /\ dep = NoDep
    /\ pref = NoPref
    /\ \E d \in {"absent", "installed"} : srv = [NoSrv EXCEPT !.dir = d]
    /\ net = NoNet
    /\ par = NoPar

NextInstall ==
    \/ InstallServer
    \/ InstallAnswer
    \/ InstallReturn
    \/ DepServerLookup
    \/ DepServerAnswer
    \/ DepServerInstall

SpecInstall == InitInstall /\ [][NextInstall]_vars

-----------------------------------------------------------------------------
(* healthcheck.py: run_server_check(get_server_root).  It asks nothing and   *)
(* returns the server root.  net.ports is the history of its port checks:    *)
(* the sockets bound when the check was made, what is_port_free returned,    *)
(* and whether the port was left alone since the check before.               *)

\* the table of run_server_check and what it returns, in the environment e,
\* with the server directory of s and the stored preference p; ip: whether
\* api.ipify.org answers
server_check(e, s, p, ip) ==
    [rows |->
       [server |-> IF get_server_root(s.dir) # "None" /\ s.binary
                   THEN "Installed" ELSE "Not Installed",
        esm |-> IF /\ load_stored_data_path(p) # "none"
                   /\ has_marker(p, load_stored_data_path(p))
                THEN "Found" ELSE "Not Set",
        port |-> IF is_port_free(e) THEN "Free" ELSE "In Use",
        ip |-> IF ip THEN "known" ELSE "Unknown",
        tailscale |-> IF is_tailscale_installed(e)
                      THEN (IF is_tailscale_running(e) THEN "Running" ELSE "Stopped")
                      ELSE "Not Installed"],
     result |-> get_server_root(s.dir),
     port |-> port_check(e).port]

\* the answers of "systemctl is-active tailscaled" and of "tailscale status"
TailscaleStates ==
    {[installed |-> FALSE, raises |-> FALSE, stdout |-> <<>>, status_ok |-> FALSE]}
      \cup {[installed |-> TRUE, raises |-> r, stdout |-> o, status_ok |-> k] :
              r \in BOOLEAN, k \in BOOLEAN,
              o \in {<<"active", NL>>, <<"in", "active", NL>>, <<"failed", NL>>, <<>>}}

ServerCheck ==
    /\ net.calls < MaxChecks
    /\ \E ip \in BOOLEAN :
         LET c == server_check(env, srv, pref, ip)
         IN  /\ net' = [net EXCEPT
                          !.pc = "returned", !.rows = c.rows, !.result = c.result,
                          !.ports = Append(net.ports,
                                           [bound |-> env.port,
                                            free |-> is_port_free(env),
                                            quiet |-> net.quiet]),
                          !.quiet = TRUE, !.calls = net.calls + 1]
             /\ env' = [env EXCEPT !.port = c.port]
    /\ op' = "run_server_check"
    /\ UNCHANGED <<cfg, last, repeat, runs, hc, dep, pref, srv, par>>

\* another process binds the port, or closes its socket
PortChanges ==
    /\ env' = [env EXCEPT !.port = IF "other" \in env.port
                                   THEN env.port \ {"other"}
                                   ELSE env.port \cup {"other"}]
    /\ net' = [net EXCEPT !.quiet = FALSE]
    /\ op' = "port"
    /\ UNCHANGED <<cfg, last, repeat, runs, hc, dep, pref, srv, par>>

InitNet ==
    /\ cfg = [f \in CfgPaths |-> [exists |-> FALSE, text |-> <<>>]]
    /\ last = NoCall
    /\ repeat = FALSE
    /\ runs = 0
    /\ op = "init"
    /\ \E t \in TailscaleStates, b \in {{}, {"other"}} :
          env = [NoEnv EXCEPT !.tailscale = t, !.port = b]
    /\ hc = NoHc
    /\ dep = NoDep
    /\ \E f \in {"none", "/a"}, ms \in {{}, {"/a"}} :
          pref = [NoPref EXCEPT !.file = f, !.markers = ms]
    /\ \E d \in {"absent", "empty", "installed"}, x \in BOOLEAN :
          /\ x => d = "installed"
          /\ srv = [NoSrv EXCEPT !.dir = d, !.binary = x]
    /\ net = NoNet
    /\ par = NoPar

NextNet ==
    \/ ServerCheck
    \/ PortChanges

SpecNet == InitNet /\ [][NextNet]_vars

-----------------------------------------------------------------------------
(* server.py: setup_server and start_server, with the user's interrupt.      *)
(* srv.pc is the position: "menu" (the "Select" prompt of the loop of        *)
(* setup_server), "enter" ("Press Enter to continue" after choices 2 to 5),  *)
(* "tailscale" (start_tailscale under way), "ask_tailscale" (its prompt),    *)
(* "info" (show_connection_info), "running" (subprocess.run of the server    *)
(* binary), "back" (setup_server has returned), "interrupted" (a             *)
(* KeyboardInterrupt has left setup_server; main.py has no handler).         *)
(* srv.out lists what start_server printed since the last menu choice.       *)

\* a try block that spans the whole of start_server
in_tryMutant(pc) == pc \in {"tailscale", "ask_tailscale", "info", "running"}

\* the positions inside try ... except KeyboardInterrupt (lines 238-249)
in_try(pc) == pc = "running"

\* tailscale.is_tailscale_running(): "tailscale status" exits 0
tailscale_status(e) == e.tailscale.installed /\ e.tailscale.status_ok

ServeGoes(pc, out) == srv' = [srv EXCEPT !.pc = pc, !.out = out]

\* setup_server() with the server installed: the menu is shown
SetupServer ==
    /\ srv.pc = "idle"
    /\ get_server_root(srv.dir) # "None"
    /\ srv' = [srv EXCEPT !.routine = "setup_server", !.pc = "menu", !.out = <<>>]
    /\ op' = "setup_server"
    /\ UNCHANGED <<cfg, last, repeat, runs, env, hc, dep, pref, net, par>>

\* choice 1: start_server up to start_tailscale, or "Server binary not found."
ServeStart ==
    /\ srv.pc = "menu"
    /\ srv.calls < MaxStarts
    /\ srv' = [srv EXCEPT !.calls = srv.calls + 1,
                          !.pc = IF srv.binary THEN "tailscale" ELSE "menu",
                          !.out = IF srv.binary THEN <<>>
                                  ELSE <<"Server binary not found.">>]
    /\ op' = "start_server"
    /\ UNCHANGED <<cfg, last, repeat, runs, env, hc, dep, pref, net, par>>

\* choices 2 to 5 end in "Press Enter to continue"; choice 6 leaves the loop
ServeOther ==
    /\ srv.pc = "menu"
    /\ \E choice \in {"2", "6"} :
          ServeGoes(IF choice = "6" THEN "back" ELSE "enter", <<>>)
    /\ op' = "setup_server"
    /\ UNCHANGED <<cfg, last, repeat, runs, env, hc, dep, pref, net, par>>

ServeEnter ==
    /\ srv.pc = "enter"
    /\ ServeGoes("menu", <<>>)
    /\ op' = "setup_server"
    /\ UNCHANGED <<cfg, last, repeat, runs, env, hc, dep, pref, net, par>>

\* start_tailscale(): nothing to do when Tailscale runs, else one of its
\* prompts ("Install Tailscale now?", "Start Tailscale now?"), then on
ServeTailscale ==
    /\ srv.pc \in {"tailscale", "ask_tailscale"}
    /\ IF srv.pc = "tailscale" /\ ~ tailscale_status(env)
       THEN ServeGoes("ask_tailscale", srv.out) /\ env' = env
       ELSE /\ ServeGoes("info", srv.out)
            /\ \E ok \in BOOLEAN :
                  env' = IF srv.pc = "ask_tailscale" /\ env.tailscale.installed
                         THEN [env EXCEPT !.tailscale.status_ok = ok]
                         ELSE env
    /\ op' = "start_server"
    /\ UNCHANGED <<cfg, last, repeat, runs, hc, dep, pref, net, par>>

\* show_connection_info(), "Starting server...", then the server runs
ServeInfo ==
    /\ srv.pc = "info"
    /\ ServeGoes("running", Append(srv.out, "Starting server..."))
    /\ op' = "start_server"
    /\ UNCHANGED <<cfg, last, repeat, runs, env, hc, dep, pref, net, par>>

\* the server process ends by itself: subprocess.run returns, start_server
\* returns to the loop
ServeEnds ==
    /\ srv.pc = "running"
    /\ ServeGoes("menu", srv.out)
    /\ op' = "start_server"
    /\ UNCHANGED <<cfg, last, repeat, runs, env, hc, dep, pref, net, par>>

\* the user presses Ctrl+C: KeyboardInterrupt is raised at the current
\* position.  Inside the try block it is caught, "Server stopped." is printed
\* and start_server returns to the loop of setup_server; elsewhere it
\* propagates.
ServeInterrupt ==
    /\ srv.pc \in {"menu", "enter", "tailscale", "ask_tailscale", "info", "running"}
    /\ IF in_try(srv.pc)
       THEN ServeGoes("menu", Append(srv.out, "Server stopped."))
       ELSE ServeGoes("interrupted", srv.out)
    /\ op' = "interrupt"
    /\ UNCHANGED <<cfg, last, repeat, runs, env, hc, dep, pref, net, par>>

InitServe ==
    /\ cfg = [f \in CfgPaths |-> [exists |-> FALSE, text |-> <<>>]]
    /\ last = NoCall
    /\ repeat = FALSE
    /\ runs = 0
    /\ op = "init"
    /\ \E t \in TailscaleStates : env = [NoEnv EXCEPT !.tailscale = t]
    /\ hc = NoHc
    /\ dep = NoDep
    /\ pref = NoPref
    /\ \E x \in BOOLEAN : srv = [NoSrv EXCEPT !.dir = "installed", !.binary = x]
    /\ net = NoNet
    /\ par = NoPar

NextServe ==
    \/ SetupServer
    \/ ServeStart
    \/ ServeOther
    \/ ServeEnter
    \/ ServeTailscale
    \/ ServeInfo
    \/ ServeEnds
    \/ ServeInterrupt

SpecServe == InitServe /\ [][NextServe]_vars

-----------------------------------------------------------------------------
(* client.py: two invocations of _update_single_config on the global file,   *)
(* running concurrently.  Each invocation is two atomic steps, the read of   *)
(* lines 47-54 and the write of lines 93-94; par.inv[i] holds its arguments, *)
(* its position ("read", "write", "done", "raised"), what the read met (rd)  *)
(* and the lines it read; par.start is the file before either one ran.       *)

Invocations == {1, 2}

\* with open(cfg_path, 'r') as f: lines = f.readlines(), or lines = []
ParRead(i) ==
    /\ par.inv # <<>>
    /\ par.inv[i].pc = "read"
    /\ \E rd \in ReadResults(cfg["global"]) :
          LET r == read_lines(cfg["global"], rd)
          IN  par' = [par EXCEPT !.inv[i].pc = IF r.raised THEN "raised" ELSE "write",
                                 !.inv[i].rd = rd,
                                 !.inv[i].lines = r.lines]
    /\ op' = "read"
    /\ UNCHANGED <<cfg, last, repeat, runs, env, hc, dep, pref, srv, net>>

\* the filter loop and the header on the lines read, then
\* with open(cfg_path, 'w') as f: f.writelines(lines)
ParWrite(i) ==
    /\ par.inv # <<>>
    /\ par.inv[i].pc = "write"
    /\ \E w \in write_file(cfg["global"],
                           new_text(par.inv[i].lines, par.inv[i].data_path,
                                    par.inv[i].include_content)) :
          /\ cfg' = [cfg EXCEPT !["global"] = w.file]
          /\ par' = [par EXCEPT !.inv[i].pc = IF w.err = "none" THEN "done" ELSE "raised",
                                !.inv[i].err = w.err]
    /\ op' = "write"
    /\ UNCHANGED <<last, repeat, runs, env, hc, dep, pref, srv, net>>

InitPar ==
    /\ cfg \in [CfgPaths -> InitFiles(MaxParLines)]
    /\ cfg["local"] = [exists |-> FALSE, text |-> <<>>]
    /\ last = NoCall
    /\ repeat = FALSE
    /\ runs = 0
    /\ op = "init"
    /\ env = NoEnv
    /\ hc = NoHc
    /\ dep = NoDep
    /\ pref = NoPref
    /\ srv = NoSrv
    /\ net = NoNet
    /\ \E a \in [Invocations -> DataPaths \X BOOLEAN] :
          par = [inv |-> [i \in Invocations |->
                            [data_path |-> a[i][1], include_content |-> a[i][2],
                             pc |-> "read", rd |-> "absent", err |-> "none",
                             lines |-> <<>>]],
                 start |-> cfg["global"]]

NextPar == \E i \in Invocations : ParRead(i) \/ ParWrite(i)

SpecPar == InitPar /\ [][NextPar]_vars

-----------------------------------------------------------------------------
(* What the claims speak of.  These are the claims' notions, written from   *)
(* their words and not from the filter loop: a directive is key = value,    *)
(* the key in any case, with blanks allowed around the line, the key and    *)
(* the "=".                                                                 *)

\* the line is "<key> = ..." for the given key
IsDirective(line, key) ==
    LET s == strip(line)
    IN  /\ s # <<>>
        /\ lower(Head(s)) = key
        /\ lstrip(Tail(s)) # <<>>
        /\ Head(lstrip(Tail(s))) = "="

\* the value of a directive line: what follows the "=", blanks stripped
DirectiveValue(line) == lstrip(Tail(lstrip(Tail(strip(line)))))

IsDataDirective(line) == IsDirective(line, "data")

\* the line names exactly the base file d = <<key, name>>
IsBaseDirective(line, d) ==
    /\ IsDirective(line, d[1])
    /\ Len(DirectiveValue(line)) = 1
    /\ lower(DirectiveValue(line)[1]) = lower(d[2])

IsAnyBaseDirective(line) ==
    \E i \in 1..Len(BaseDirectives) : IsBaseDirective(line, BaseDirectives[i])

IsManagedDirective(line) == IsDataDirective(line) \/ IsAnyBaseDirective(line)

\* a line that reads data=... once the blanks around it are stripped
IsLiteralDataLine(line) ==
    LET s == strip(line)
    IN  Len(s) >= 2 /\ s[1] = "data" /\ s[2] = "="

\* such a line whose value begins with a double quote and a question mark
IsTokenDataLine(line) ==
    LET s == strip(line)
    IN  IsLiteralDataLine(line) /\ Len(s) >= 4 /\ s[3] = DQ /\ s[4] = "?"

Count(lines, P(_)) == Len(SelectSeq(lines, P))

RECURSIVE IsSubseq(_, _)
IsSubseq(a, b) ==
    IF a = <<>> THEN TRUE
    ELSE IF b = <<>> THEN FALSE
    ELSE IF Head(a) = Head(b) THEN IsSubseq(Tail(a), Tail(b))
    ELSE IsSubseq(a, Tail(b))

IsPrefix(a, b) == Len(a) <= Len(b) /\ SubSeq(b, 1, Len(a)) = a

\* the header block as the specification words it
DataLineOf(data_path) == <<"data", "=", DQ>> \o data_path \o <<DQ, NL>>

SixFixedLines ==
    << <<"content", "=", "Morrowind.esm", NL>>, <<"content", "=", "Tribunal.esm", NL>>,
       <<"content", "=", "Bloodmoon.esm", NL>>,
       <<"fallback-archive", "=", "Morrowind.bsa", NL>>,
       <<"fallback-archive", "=", "Tribunal.bsa", NL>>,
       <<"fallback-archive", "=", "Bloodmoon.bsa", NL>> >>

HeaderBlock(data_path, include_content) ==
    <<DataLineOf(data_path)>> \o (IF include_content THEN SixFixedLines ELSE <<>>)

\* the last call returned without raising
Returned == last.cfg_path # "none" /\ last.err = "none"

\* the file of the last call, as lines, before and after the call
BeforeLines == readlines(last.before.text)
AfterLines == readlines(cfg[last.cfg_path].text)

\* the lines of the rewritten file that follow its header block
AfterRest ==
    SubSeq(AfterLines, Len(HeaderBlock(last.data_path, last.include_content)) + 1,
           Len(AfterLines))

-----------------------------------------------------------------------------
(* The reconciler's claims *)

\* C1: a call of _update_single_config that repeats the call before it (same
\* file, same data_path, same include_content), both calls returning and the
\* file readable, leaves the file byte-identical to what the first call wrote.
CfgIdempotent ==
    (Returned /\ repeat /\ last.rd = "ok") => cfg[last.cfg_path] = last.before

CfgPassthroughPreserved ==
    (Returned /\ last.rd = "ok") =>
        IsSubseq(SelectSeq(BeforeLines, LAMBDA l : ~ IsManagedDirective(l)), AfterLines)

\* C4: every line of the original file that is a managed directive (data, or
\* one of the six base directives; any case, blanks around key and "=") is
\* removed: below the fresh header no managed directive is left.
CfgManagedRemoved ==
    (Returned /\ last.rd = "ok") => Count(AfterRest, IsManagedDirective) = 0

\* C5: the rewritten file starts with the header block: the line
\* data="<data_path>", then the six fixed lines iff include_content; and when
\* the original held no data directive and include_content is true, the whole
\* file holds exactly one data directive and each of the six base directives
\* exactly once (six base directive lines in all).
CfgHeaderBlock ==
    Returned =>
        /\ AfterLines # <<>>
        /\ AfterLines[1] = DataLineOf(last.data_path)
        /\ (Len(AfterLines) >= 7 /\ SubSeq(AfterLines, 2, 7) = SixFixedLines)
              <=> last.include_content
        /\ (last.include_content /\ Count(BeforeLines, IsDataDirective) = 0) =>
              /\ Count(AfterLines, IsDataDirective) = 1
              /\ Count(AfterLines, IsAnyBaseDirective) = 6
              /\ \A i \in 1..Len(BaseDirectives) :
                    Count(AfterLines, LAMBDA l : IsBaseDirective(l, BaseDirectives[i])) = 1

\* C5 witness: include_content, an original of two lines with no data directive
\* but with a base directive and another content line, rewritten.
CfgHeaderBlockWitness ==
    /\ Returned
    /\ last.include_content
    /\ last.rd = "ok"
    /\ Count(BeforeLines, IsDataDirective) = 0
    /\ Count(BeforeLines, IsAnyBaseDirective) = 1
    /\ Len(BeforeLines) = 2
    /\ Len(AfterLines) = 8

\* C6, as claimed: after a call that raised, the file holds its complete
\* previous content or the complete new content.
CfgErrorLeavesOldOrNew ==
    (last.cfg_path # "none" /\ last.err # "none") =>
        \/ cfg[last.cfg_path] = last.before
        \/ /\ cfg[last.cfg_path].exists
           /\ cfg[last.cfg_path].text =
                new_text(read_lines(last.before, last.rd).lines,
                         last.data_path, last.include_content)

\* C6, amended: after a call that raised, the file is untouched or holds a
\* prefix of the new content (open(..., 'w') has truncated it and the write
\* stopped part-way); it never holds a mix of old and new content.
CfgErrorLeavesOldOrPrefix ==
    (last.cfg_path # "none" /\ last.err # "none") =>
        \/ cfg[last.cfg_path] = last.before
        \/ /\ cfg[last.cfg_path].exists
           /\ IsPrefix(cfg[last.cfg_path].text,
                       new_text(read_lines(last.before, last.rd).lines,
                                last.data_path, last.include_content))

\* C6 witness: a write has failed part-way on a file that had content: the file
\* now holds a non-empty proper prefix of the new content and not the old one.
CfgErrorLeavesOldOrPrefixWitness ==
    /\ last.err = "write"
    /\ last.before.text # <<>>
    /\ cfg[last.cfg_path].text # <<>>
    /\ cfg[last.cfg_path].text # last.before.text
    /\ Len(cfg[last.cfg_path].text) <
          Len(new_text(read_lines(last.before, last.rd).lines,
                       last.data_path, last.include_content))

\* C7: when the file exists and cannot be read, the read raises nothing, and
\* the file the call writes is the header block and nothing else.
CfgUnreadableIsEmpty ==
    (last.cfg_path # "none" /\ last.rd = "fail") =>
        /\ last.err # "read"
        /\ last.err = "none" =>
              cfg[last.cfg_path].text =
                  writelines(HeaderBlock(last.data_path, last.include_content))

\* C7 witness: an unreadable file that held a line the filter would keep has
\* been rewritten.
CfgUnreadableIsEmptyWitness ==
    /\ Returned
    /\ last.rd = "fail"
    /\ Count(BeforeLines, LAMBDA l : ~ IsManagedDirective(l)) >= 1
    /\ cfg[last.cfg_path].text # last.before.text

\* C8: after update_openmw_configs(data_path) has completed, the global file
\* holds the data line and each of the six base directives exactly once, and
\* the local file holds the data line and none of the six.
OpenmwNoDuplicateContent ==
    (op = "update_openmw_configs" /\ last.err = "none") =>
        LET g == readlines(cfg["global"].text)
            l == readlines(cfg["local"].text)
        IN  /\ Count(g, LAMBDA x : x = DataLineOf(last.data_path)) >= 1
            /\ \A i \in 1..Len(BaseDirectives) :
                  Count(g, LAMBDA x : IsBaseDirective(x, BaseDirectives[i])) = 1
            /\ Count(l, LAMBDA x : x = DataLineOf(last.data_path)) >= 1
            /\ Count(l, IsAnyBaseDirective) = 0

\* C8 witness: update_openmw_configs has completed on two files that both held
\* a base directive before.
OpenmwNoDuplicateContentWitness ==
    /\ op = "update_openmw_configs"
    /\ last.err = "none"
    /\ last.cfg_path = "local"
    /\ Count(BeforeLines, IsAnyBaseDirective) >= 1
    /\ Count(readlines(cfg["global"].text), IsAnyBaseDirective) = 6
    /\ Len(readlines(cfg["global"].text)) >= 8

\* the priority of a prompt or action of a pass: 0 libraries, 1 Flatpak,
\* 2 engine, 3 data linkage, 4 what follows the remediation blocks
Priority(ev) ==
    CASE ev \in {"report_deps", "ask_install", "install_ok", "install_failed",
                 "ask_continue"} -> 0
      [] ev = "flatpak_fatal" -> 1
      [] ev \in {"ask_engine", "setup_engine"} -> 2
      [] ev \in {"ask_link", "setup_data"} -> 3
      [] OTHER -> 4

\* the condition of the remediation of priority p, as the pass evaluated it
Condition(p) ==
    CASE p = 0 -> hc.variant = "healthcheck" /\ hc.snap.missing_deps # <<>>
      [] p = 1 -> ~ hc.snap.has_flatpak
      [] p = 2 -> ~ hc.snap.has_engine /\ hc.func
      [] OTHER -> /\ ~ hc.snap.data_status.config_linked
                  /\ hc.snap.data_status.local_present
                  /\ hc.func

Remediated(ev) == ev \in {"install_ok", "setup_engine", "setup_data"}

\* C9: within one pass of run_system_check the prompts and actions occur in
\* the order libraries, Flatpak, engine, data linkage: nothing of a lower
\* priority occurs before something of a higher priority, and whatever
\* occurs comes after the prompt of every higher priority whose condition
\* holds in the pass.
HcPriorityOrder ==
    /\ \A i, j \in DOMAIN hc.log :
          i < j => Priority(hc.log[i]) <= Priority(hc.log[j])
    /\ \A j \in DOMAIN hc.log : \A p \in 0..3 :
          (p < Priority(hc.log[j]) /\ Condition(p))
            => \E i \in 1..(j - 1) : Priority(hc.log[i]) = p

HcPriorityOrderWitness ==
    /\ hc.pc = "returned"
    /\ \E i, j, k \in DOMAIN hc.log :
          /\ hc.log[i] = "ask_continue"
          /\ hc.log[j] = "ask_engine"
          /\ hc.log[k] = "ask_link"

\* C10: when an accepted remediation has been executed (the install command
\* succeeded, or setup_client returned), nothing more happens in that pass and
\* the next step is the top of the loop; a pass starts with no prompt shown
\* and with every predicate evaluated from the environment and the files as
\* they are then, whatever the previous pass found.
HcRemediationRestartsPass ==
    [][/\ (Len(hc'.log) = Len(hc.log) + 1 /\ Remediated(hc'.log[Len(hc'.log)]))
          => hc'.pc = "check"
       /\ \A i \in DOMAIN hc'.log :
             Remediated(hc'.log[i]) => i = Len(hc'.log) /\ hc'.pc = "check"
       /\ (hc.pc = "check" /\ hc' # hc)
          => /\ hc'.log = <<>>
             /\ hc'.pc = fix_order(hc.variant)[1]
             /\ hc'.snap \in Snapshots(env', cfg')
             /\ hc'.passes = hc.passes + 1]_vars

HcRemediationRestartsPassWitness ==
    /\ hc.passes = 2
    /\ hc.pc # "check"
    /\ ~ hc.prev.has_engine
    /\ hc.snap.has_engine
    /\ hc.prev.data_status.config_linked # hc.snap.data_status.config_linked

\* run_system_check is over: it has returned, exited the process, or an
\* exception has left it
Terminated == hc.pc \in {"returned", "exit", "crashed"}

LastEvent == IF hc.log = <<>> THEN "none" ELSE hc.log[Len(hc.log)]

\* an accepted remediation is being executed
InRemediation == hc.pc \in {"install", "setup_engine", "setup_data"}

\* C11: a pass of run_system_check in which no remediation is accepted and
\* executed is the last one: the top of the loop is reached again only after
\* an executed remediation, and every pass that has begun leads to the end of
\* run_system_check (return, exit or exception) unless an accepted
\* remediation is executed.
HcPassWithoutFixIsLast ==
    /\ [](hc.pc = "check" /\ hc.passes > 0 => Remediated(LastEvent))
    /\ \A p \in 1..MaxPasses :
          (hc.passes = p)
            ~> \/ Terminated
               \/ InRemediation
               \/ hc.pc = "check" /\ hc.passes = p /\ Remediated(LastEvent)

HcPassWithoutFixIsLastWitness ==
    /\ hc.pc = "returned"
    /\ hc.passes = 2
    /\ \E i, j \in DOMAIN hc.log :
          hc.log[i] = "ask_install" /\ hc.log[j] = "ask_engine"

InLog(ev) == \E i \in DOMAIN hc.log : hc.log[i] = ev

\* the current pass has gone past block b of the auto-fix logic
PastBlock(b) ==
    CASE b = "deps" -> hc.pc # "deps"
      [] b = "engine" ->
            \/ hc.pc \in {"setup_engine", "data", "setup_data", "final", "returned"}
            \/ hc.pc = "check" /\ LastEvent \in {"setup_engine", "setup_data"}
      [] OTHER ->
            \/ hc.pc \in {"setup_data", "final", "returned"}
            \/ hc.pc = "check" /\ LastEvent = "setup_data"

\* C12: the loop of run_system_check has no iteration cap.  When the
\* remediation the previous pass executed has left its predicate as it was,
\* the pass that follows offers the same remediation again as soon as it
\* gets to its block, however many passes came before; and after an executed
\* remediation a further pass can always begin.
HcSameFixOfferedAgain ==
    /\ (/\ hc.fixed = "install_ok"
        /\ hc.snap.missing_deps = hc.prev.missing_deps
        /\ PastBlock("deps"))
          => InLog("ask_install")
    /\ (/\ hc.fixed = "setup_engine"
        /\ ~ hc.snap.has_engine
        /\ PastBlock("engine"))
          => InLog("ask_engine")
    /\ (/\ hc.fixed = "setup_data"
        /\ hc.snap.data_status = hc.prev.data_status
        /\ PastBlock("data"))
          => InLog("ask_link")
    /\ (hc.pc = "check" /\ hc.passes < MaxPasses) => ENABLED HcEvaluate

HcSameFixOfferedAgainWitness ==
    /\ hc.passes = 2
    /\ hc.pc = "check"
    /\ hc.fixed = "setup_engine"
    /\ LastEvent = "setup_engine"
    /\ ~ hc.snap.has_engine
    /\ ~ hc.prev.has_engine

\* C13: a missing Flatpak is fatal.  With Flatpak not installed,
\* run_system_check never returns to its caller and never calls the client
\* setup function or shows the engine or data linkage prompt; the pass that
\* gets to the Flatpak block calls sys.exit(1) there.
HcFlatpakMissingIsFatal ==
    [][(hc'.passes > 0 /\ ~ hc'.snap.has_flatpak)
        => /\ hc'.pc \notin {"returned", "engine", "setup_engine", "data",
                             "setup_data", "final"}
           /\ \A i \in DOMAIN hc'.log :
                 hc'.log[i] \notin {"ask_engine", "setup_engine", "ask_link",
                                    "setup_data", "press_enter"}
           /\ (hc.pc = "flatpak" /\ hc'.pc # "flatpak")
                 => /\ hc'.pc = "exit"
                    /\ hc'.code = 1
                    /\ hc'.log = Append(hc.log, "flatpak_fatal")
           /\ hc'.pc = "exit" => hc'.code = 1]_vars

HcFlatpakMissingIsFatalWitness ==
    /\ ~ env.flatpak
    /\ hc.pc = "exit"
    /\ hc.code = 1
    /\ LastEvent = "flatpak_fatal"
    /\ InLog("ask_continue")
    /\ env.browser

\* ways the systemctl and tailscale subprocesses of is_tailscale_running can go
TailscaleRuns ==
    {[installed |-> TRUE, raises |-> r, stdout |-> o, status_ok |-> k] :
        r \in BOOLEAN, o \in {<<>>, <<"active">>, <<"failed">>}, k \in BOOLEAN}

\* C14: a check whose subprocess or file access fails gives the negative
\* value of its predicate: a pass taken while ldd exits non-zero does not
\* show the dependencies as "Ready"; is_tailscale_running is FALSE when
\* systemctl cannot be run and "tailscale status" fails; the data files are
\* not linked when no candidate openmw.cfg can be read.
HcFailedCheckIsNegative ==
    /\ (hc.passes > 0 /\ env.ldd.run = "nonzero")
          => dep_status(hc.snap.missing_deps) # "Ready"
    /\ \A t \in TailscaleRuns :
          (t.raises /\ ~ t.status_ok) => ~ is_tailscale_running([env EXCEPT !.tailscale = t])
    /\ ~ check_data_files(env, cfg, <<"fail", "fail">>).config_linked

\* the checks of the pass have just been made
JustEvaluated == hc.passes > 0 /\ hc.pc = fix_order(hc.variant)[1]

\* C15: every predicate of a pass has the value of its own check alone; the
\* engine result is that of is_tes3mp_installed whether or not Flatpak is
\* installed.
HcPredicatesIndependent ==
    JustEvaluated
      => /\ hc.snap.has_flatpak = is_flatpak_installed(env)
         /\ hc.snap.has_engine = is_tes3mp_installed(env)
         /\ hc.snap.missing_deps = check_dependencies(env)
         /\ hc.snap.port_free = is_port_free(env)

\* the install prompt was shown and declined in this pass
DeclinedInstall ==
    \E i \in DOMAIN hc.log :
        /\ hc.log[i] = "ask_install"
        /\ i < Len(hc.log)
        /\ hc.log[i + 1] = "ask_continue"

\* C16 as stated: once the user has declined the library installation the
\* process is not terminated.
HcDeclinedInstallSurvives == DeclinedInstall => hc.pc # "exit"

\* C16: when the user declines the library installation, "Continue anyway?"
\* is asked next; on yes run_system_check goes on to the Flatpak block, on no
\* it calls sys.exit(1).
HcDeclinedInstallAsksToContinue ==
    [][/\ (/\ hc.pc = "deps"
           /\ hc'.log = hc.log \o <<"report_deps", "ask_install">>
           /\ hc'.pc # "install")
             => hc'.pc = "continue_anyway"
       /\ (hc.pc = "continue_anyway" /\ hc' # hc)
             => /\ hc'.log = Append(hc.log, "ask_continue")
                /\ \/ hc'.pc = "flatpak" /\ hc'.code = 0
                   \/ hc'.pc = "exit" /\ hc'.code = 1]_vars

HcDeclinedInstallAsksToContinueWitness ==
    /\ DeclinedInstall
    /\ hc.pc = "returned"
    /\ hc.snap.missing_deps # <<>>

\* the lookup of dep.routine has been made
LookedUp == dep.pc \notin {"idle", "start"}

Range(q) == {q[i] : i \in DOMAIN q}

NoDuplicates(q) == \A i, j \in DOMAIN q : q[i] = q[j] => i = j

\* the table of a routine as rows <<key, package per family>> and the family
\* of the active package manager
TableOf(routine) ==
    IF routine = "server" THEN LIB_TO_PKG ELSE DepTable

FamilyOf(routine, managers) ==
    IF routine = "server" THEN server_pkg_manager(managers)
    ELSE pkg_manager(managers)

EntryOf(routine, row, family) ==
    IF routine = "server" THEN pkg_of(row, family)
    ELSE CASE family = "apt" -> row[2]
           [] family = "dnf" -> row[3]
           [] OTHER -> row[4]

\* the package of the first table entry whose key is in lib, if any
FirstEntry(routine, lib, family) ==
    LET t == TableOf(routine)
        hits == {k \in 1..Len(t) : \E i \in DOMAIN lib : lib[i] = t[k][1]}
    IN  IF hits = {} \/ family = "none" THEN {}
        ELSE {EntryOf(routine, t[CHOOSE k \in hits : \A j \in hits : k <= j], family)}

Installable(routine, missing, managers) ==
    UNION {FirstEntry(routine, missing[i], FamilyOf(routine, managers)) :
             i \in DOMAIN missing}

\* C17: the packages of a lookup are those of the first matching table entry
\* of each missing library, for the active package manager, and no package
\* name is handed to the install command twice.
DepLookupContract ==
    LookedUp
      => /\ Range(dep.pkgs) = Installable(dep.routine, dep.missing, dep.managers)
         /\ NoDuplicates(dep.pkgs)

ZvbiLine == <<"libzvbi", ".so.0", " => not found">>

ZvbiPackage(managers) ==
    IF "apt-get" \in managers THEN <<"libzvbi0">> ELSE <<"zvbi">>

\* C18 as stated: with the missing list ["libzvbi.so.0 => not found"] and apt,
\* dnf or pacman available, every lookup routine yields the mapped package.
DepZvbiResolvesEverywhere ==
    (/\ LookedUp
     /\ dep.missing = <<ZvbiLine>>
     /\ dep.managers \cap {"apt-get", "dnf", "pacman"} # {})
       => dep.pkgs = ZvbiPackage(dep.managers)

\* C18: with the missing list ["libzvbi.so.0 => not found"] and apt, dnf or
\* pacman available, the lookup of run_system_check yields libzvbi0 for apt
\* and zvbi for dnf and pacman; the lookup of check_server_dependencies, whose
\* table has no libzvbi key, yields no package and returns False.
DepZvbiResolves ==
    (/\ LookedUp
     /\ dep.missing = <<ZvbiLine>>
     /\ dep.managers \cap {"apt-get", "dnf", "pacman"} # {})
       => IF dep.routine = "healthcheck"
          THEN /\ dep.pkgs = ZvbiPackage(dep.managers)
               /\ dep.cmd = install_cmd(<<ZvbiLine>>, dep.managers)
               /\ dep.cmd[Len(dep.cmd)] = ZvbiPackage(dep.managers)[1]
          ELSE /\ dep.pkgs = <<>>
               /\ dep.cmd = <<>>
               /\ dep.pc = "returned"
               /\ dep.result = "False"

DepZvbiResolvesWitness ==
    /\ LookedUp
    /\ dep.routine = "healthcheck"
    /\ dep.missing = <<ZvbiLine>>
    /\ dep.managers = {"dnf"}
    /\ dep.pkgs = <<"zvbi">>

\* C19: when no missing library matches a table key, the installable set is
\* empty and no install command is offered or run in the pass.
HcNoMatchNoInstall ==
    (/\ hc.passes > 0
     /\ hc.snap.missing_deps # <<>>
     /\ Installable("healthcheck", hc.snap.missing_deps, env.managers) = {})
       => /\ hc_pkgs(hc.snap.missing_deps, env.managers) = <<>>
          /\ hc.pc # "install"
          /\ ~ InLog("ask_install")
          /\ ~ InLog("install_ok")

\* C20: the lifecycle of the stored data path.  The preference changes only
\* by a configure call that saves the entered directory, in which
\* Morrowind.esm was found just before; a valid entered path replaces the
\* stored one; a stored preference never goes away; a rejected path and a
\* declined change leave it as it was.
PrefLifecycle ==
    [][/\ pref'.file # pref.file
            => /\ pref.pc = "ask_path"
               /\ pref'.file = pref'.entered
               /\ pref'.file \in pref.markers
       /\ pref.file # "none" => pref'.file # "none"
       /\ (pref.pc = "ask_path" /\ pref'.entered \in pref.markers /\ pref'.pc # "ask_path")
            => pref'.file = pref'.entered
       /\ (pref.pc = "ask_path" /\ pref'.pc = "try_again")
            => pref'.file = pref.file /\ pref'.entered \notin pref.markers
       /\ (pref.pc = "ask_change" /\ pref'.pc = "idle")
            => pref'.file = pref.file /\ pref'.result = pref.file
       /\ (pref.pc = "try_again" /\ pref'.pc = "idle")
            => pref'.file = pref.file /\ pref'.result = "None"]_vars

PrefLifecycleWitness ==
    /\ pref.calls = 2
    /\ pref.pc = "idle"
    /\ pref.before \notin {"none", pref.file}
    /\ pref.result = pref.file
    /\ pref.found

-----------------------------------------------------------------------------
(* configure_server *)

\* the call of configure_server has returned
Configured == srv.routine = "configure_server" /\ srv.pc = "done"

\* a line that assigns key: the key at the start of the line, blanks, "="
IsAssignment(line, key) ==
    /\ line # <<>>
    /\ Head(line) = key
    /\ LET a == lstrip(Tail(line)) IN a # <<>> /\ Head(a) = "="

\* a line without its line feed, and the line feed it ends in (or nothing)
Body(line) == IF line # <<>> /\ line[Len(line)] = NL THEN SubSeq(line, 1, Len(line) - 1) ELSE line

Ending(line) == IF line # <<>> /\ line[Len(line)] = NL THEN <<NL>> ELSE <<>>

\* the line the claim expects in place of a line of the old file
Rewritten(line) ==
    IF IsAssignment(Body(line), "hostname")
    THEN <<"hostname", SP, "=", SP>> \o srv.new_name \o Ending(line)
    ELSE IF IsAssignment(Body(line), "password")
    THEN <<"password", SP, "=", SP>> \o srv.new_password \o Ending(line)
    ELSE line

\* C21: after configure_server has run, every hostname assignment of the
\* configuration file reads "hostname = <new name>", every password
\* assignment reads "password = <new password>" (with an empty value when no
\* password is given), every other line is as it was and in its place; when
\* the file does not exist nothing is written.
ConfigureRewritesOnlyAssignments ==
    Configured
      => IF srv.before.exists
         THEN srv.config.exists
              /\ srv.config.text
                   = writelines([i \in 1..Len(readlines(srv.before.text)) |->
                                    Rewritten(readlines(srv.before.text)[i])])
         ELSE srv.config = srv.before

-----------------------------------------------------------------------------
(* install_server *)

\* C22: headless automation asks nothing: during and after a call of
\* install_server(interactive=False) no prompt has been shown, neither by
\* install_server nor by the dependency check it makes.
HeadlessAsksNothing ==
    (srv.routine = "install_server" /\ ~ srv.interactive)
      => /\ srv.asked = <<>>
         /\ dep.pc # "offer"

\* a call of install_server has returned
Installed == srv.routine = "install_server" /\ srv.pc = "done"

\* C27: a call of install_server that reports "already installed" returns a
\* server root, and a call made after a call whose download failed attempts
\* the download again (unless the user declines the installation).
InstallSkipsOnlyWhenPresent ==
    Installed
      => /\ srv.out = <<"already installed">> => srv.result # "None"
         /\ (srv.failed /\ srv.asked = <<>>) => srv.download # "none"

-----------------------------------------------------------------------------
(* run_server_check *)

\* C24: is_port_free returns False when another socket is bound to the UDP
\* port and True when none is, and it leaves the port unbound: of two checks
\* with no socket bound or closed in between, the second returns True when
\* the first did.
PortCheckIsExact ==
    /\ "check" \notin env.port
    /\ \A i \in DOMAIN net.ports :
          /\ net.ports[i].free = (net.ports[i].bound \ {"check"} = {})
          /\ (i > 1 /\ net.ports[i].quiet /\ net.ports[i - 1].free)
                => net.ports[i].free

PortCheckIsExactWitness ==
    /\ Len(net.ports) = 2
    /\ net.ports[1].free
    /\ net.ports[2].quiet
    /\ net.ports[2].free
    /\ net.rows.port = "Free"

\* C29: is_tailscale_running is False when Tailscale is not installed, and
\* False when "systemctl is-active tailscaled" prints a state other than
\* active, such as inactive or failed; run_server_check then shows "Not
\* Installed" and "Stopped".
TailscaleRunningOnlyWhenActive ==
    net.pc = "returned"
      => /\ ~ env.tailscale.installed
              => ~ is_tailscale_running(env) /\ net.rows.tailscale = "Not Installed"
         /\ (/\ env.tailscale.installed
             /\ ~ env.tailscale.raises
             /\ env.tailscale.stdout \in {<<"in", "active", NL>>, <<"failed", NL>>})
              => ~ is_tailscale_running(env) /\ net.rows.tailscale = "Stopped"

-----------------------------------------------------------------------------
(* Tailscale in the health checks *)

\* a snapshot without what it says about Tailscale
WithoutTailscale(sn) == [sn EXCEPT !.tailscale = "missing"]

\* Tailscale not installed, running, stopped
TailscaleCases == {n.tailscale : n \in HcNetwork}

\* the blocks of the auto-fix logic that end in a prompt or in sys.exit
FixBlocks == {"deps", "flatpak", "engine", "data"}

\* the condition of the closing "Press Enter to continue" (healthcheck.py 198-203)
PressEnter(h) ==
    /\ h.variant = "healthcheck"
    /\ h.interactive \/ ~ (h.snap.has_engine /\ h.snap.data_status.config_linked)

\* C23: Tailscale only changes the rendered status.  With any other values
\* of the Tailscale predicates a pass of run_system_check that starts here
\* computes the same other predicates, a pass under way enters the same
\* blocks and shows the same prompts, and run_server_check renders the same
\* other rows and returns the same server root; sys.exit is only reached for
\* a missing Flatpak or a refused "Continue anyway?".
HcTailscaleOnlyRendered ==
    /\ hc.pc = "check"
          => \A t \in TailscaleCases :
                LET e2 == [env EXCEPT !.tailscale = t]
                IN  /\ {WithoutTailscale(sn) : sn \in Snapshots(e2, cfg)}
                         = {WithoutTailscale(sn) : sn \in Snapshots(env, cfg)}
                    /\ \A ip \in BOOLEAN :
                         /\ server_check(e2, srv, pref, ip).result
                              = server_check(env, srv, pref, ip).result
                         /\ [server_check(e2, srv, pref, ip).rows EXCEPT !.tailscale = "none"]
                              = [server_check(env, srv, pref, ip).rows
                                   EXCEPT !.tailscale = "none"]
    /\ \A v \in {"missing", "stopped", "running"} :
          LET h2 == [hc EXCEPT !.snap.tailscale = v]
          IN  /\ \A b \in FixBlocks : offers(b, h2) = offers(b, hc)
              /\ PressEnter(h2) = PressEnter(hc)
    /\ hc.pc = "exit"
          => /\ hc.code = 1
             /\ \/ LastEvent = "flatpak_fatal" /\ ~ hc.snap.has_flatpak
                \/ LastEvent = "ask_continue" /\ hc.snap.missing_deps # <<>>

\* a pass with Tailscale stopped that asked nothing and returned
HcTailscaleOnlyRenderedWitness ==
    /\ hc.pc = "returned"
    /\ hc.snap.tailscale = "stopped"
    /\ hc.passes = 1
    /\ hc.log = <<>>

\* C28: the install prompt of run_system_check is shown, and its install
\* command run, only in a pass whose missing libraries gave at least one
\* package: the command names a package, and "Installation successful" with
\* a restart is not reached from a pass with unmappable libraries only.
HcInstallNamesPackage ==
    (hc.pc = "install" \/ InLog("ask_install") \/ InLog("install_ok"))
      => /\ hc_pkgs(hc.snap.missing_deps, env.managers) # <<>>
         /\ Len(install_cmd(hc.snap.missing_deps, env.managers))
              > Len(install_cmd(<<>>, env.managers))

-----------------------------------------------------------------------------
(* data linkage after the remediation *)

\* the last update_openmw_configs wrote both files and returned
LinkDone == runs >= 2 /\ last.cfg_path = "local" /\ last.err = "none"

\* the ways the reads of check_data_files can go when ~/.config/openmw/openmw.cfg is read
GoodReads ==
    {rd \in [1..2 -> {"ok", "fail", "absent"}] :
        rd[1] \in ReadResults(CfgCandidates(env, cfg)[1]) /\ rd[2] = "ok"}

\* C26: after update_openmw_configs has completed without error,
\* check_data_files, reading the file that was written, reports
\* config_linked = True, and the pass that follows an accepted and successful
\* data-link remediation and sees the link does not show the data-linking
\* prompt again.
HcLinkIsSeen ==
    LinkDone
      => /\ \A rd \in GoodReads : check_data_files(env, cfg, rd).config_linked
         /\ (/\ hc.passes > 1
             /\ hc.fixed = "setup_data"
             /\ hc.pc # "check"
             /\ \E rd \in GoodReads : hc.snap.data_status = check_data_files(env, cfg, rd))
              => /\ hc.snap.data_status.config_linked
                 /\ ~ InLog("ask_link")

HcLinkIsSeenWitness ==
    /\ LinkDone
    /\ hc.passes = 2
    /\ hc.fixed = "setup_data"
    /\ hc.pc = "returned"
    /\ ~ hc.prev.data_status.config_linked
    /\ hc.prev.data_status.local_present
    /\ hc.snap.data_status.config_linked
    /\ ~ InLog("ask_link")

-----------------------------------------------------------------------------
(* the user's interrupt *)

\* C25 as stated: an interrupt while the server process runs is caught,
\* "Server stopped." is printed and the program then exits; an interrupt
\* before the run is not caught by start_server.
ServeInterruptExits ==
    [][op' = "interrupt"
         => IF srv.pc = "running"
            THEN /\ srv'.out = Append(srv.out, "Server stopped.")
                 /\ srv'.pc \in {"back", "exited"}
            ELSE /\ srv'.pc = "interrupted"
                 /\ srv'.out = srv.out]_vars

\* C25: an interrupt while the server process runs is caught, "Server
\* stopped." is printed and start_server returns to the menu loop of
\* setup_server, which asks for the next choice; an interrupt at any other
\* position (start_tailscale, show_connection_info, the prompts) is not
\* caught: it propagates out of setup_server and nothing is printed.
ServeInterruptCaughtInRun ==
    [][op' = "interrupt"
         => IF srv.pc = "running"
            THEN /\ srv'.out = Append(srv.out, "Server stopped.")
                 /\ srv'.pc = "menu"
            ELSE /\ srv'.pc = "interrupted"
                 /\ srv'.out = srv.out]_vars

ServeInterruptCaughtInRunWitness ==
    /\ op = "interrupt"
    /\ srv.pc = "menu"
    /\ srv.out = <<"Starting server...", "Server stopped.">>
    /\ srv.calls = 1

-----------------------------------------------------------------------------
(* two concurrent invocations *)

\* the files left by invocation i run alone on the file, its read and its
\* write succeeding
AloneOn(file, i) ==
    {S.cfg["global"] :
       S \in {T \in update_single_config(
                      [cfg |-> [cfg EXCEPT !["global"] = file], last |-> NoCall,
                       repeat |-> FALSE, runs |-> 0],
                      "global", par.inv[i].data_path, par.inv[i].include_content) :
                T.last.rd # "fail" /\ T.last.err = "none"}}

\* the files left by the two invocations run one after the other, in either order
SerialResults ==
    UNION {UNION {AloneOn(f, j) : f \in AloneOn(par.start, i)}
             : <<i, j>> \in {<<1, 2>>, <<2, 1>>}}

BothDone ==
    /\ par.inv # <<>>
    /\ \A i \in Invocations : par.inv[i].pc = "done" /\ par.inv[i].rd # "fail"

\* C30: when two invocations of _update_single_config on the same file have
\* both completed, their reads and writes interleaved in any way as atomic
\* steps, the file equals what the two invocations leave when run one after
\* the other in some order.
ParIsSerial == BothDone => cfg["global"] \in SerialResults

\* the same for data paths that do not begin with "?"
ParIsSerialPlainPaths ==
    (BothDone /\ \A i \in Invocations : Head(par.inv[i].data_path) # "?")
       => cfg["global"] \in SerialResults

====
